---------------------------- MODULE Spec2Model ----------------------------
(***************************************************************************)
(* The ssh bridge of mikeocool/tape (package ssh): Start's accept loop,     *)
(* handleConnection, handleChannel's request loop, the two copy goroutines  *)
(* streamDockerToSSH and streamSSHToDocker, and parseDims.  The container   *)
(* runtime (the docker client) and the remote peers are the environment.    *)
(***************************************************************************)
EXTENDS Integers, Sequences, FiniteSets, TLC

(***************************************************************************)
(* Bounds of the model.                                                     *)
(***************************************************************************)
MaxConns == 2      \* sockets the listener hands out
MaxChans == 1      \* session channels a peer asks for on one connection
MaxReqs == 3       \* channel requests of one run of the request loop
MaxEvents == 3     \* requests, typed bytes and exec output bytes of one
                   \* streaming run
MaxDimLen == 9     \* bytes of a dimension payload handed to parseDims
MaxServed == 4     \* what the peers and the exec processes do in one run of
                   \* the whole server: connect, open, ask, type, write,
                   \* leave
MaxOther == 1      \* channels of another kind a peer asks for on one
                   \* connection
MaxLoads == 3      \* starts of the server, one after the other
MaxMounts == 2     \* mounts configured for a box
MaxArgs == 2       \* additional arguments of a devcontainer command
MaxContainers == 2 \* containers the runtime holds

(***************************************************************************)
(* Program constants.                                                       *)
(***************************************************************************)
DefaultWidth == 80
DefaultHeight == 24
sshUser == "dev"
sshPassword == "dev"

Conns == 1..MaxConns
Chans == Conns \X (1..MaxChans)
ConnOf(ch) == ch[1]
StreamIds == 1..(MaxReqs + MaxEvents)
PumpIds == 1..(2 * (MaxReqs + MaxEvents))

(***************************************************************************)
(* Request payloads as the peer encodes them (RFC 4254): big-endian uint32  *)
(* fields and length-prefixed strings.                                      *)
(***************************************************************************)
U32(n) == << (n \div 16777216) % 256, (n \div 65536) % 256,
             (n \div 256) % 256, n % 256 >>
SSHString(s) == U32(Len(s)) \o s
PtyReqPayload(term, w, h) ==
    SSHString(term) \o U32(w) \o U32(h) \o U32(0) \o U32(0) \o SSHString(<< >>)
WindowChangePayload(w, h) == U32(w) \o U32(h) \o U32(0) \o U32(0)


\* A Go int v is kept as <<v \div 65536, v % 65536>>, the floor quotient and
\* the remainder: a dimension reaches 2^32 - 1, past the integers of TLC.  A
\* value is negative exactly when its first component is.
GoInt(n) == <<n \div 65536, n % 65536>>

\* int(b[i])<<24 | int(b[i+1])<<16 | int(b[i+2])<<8 | int(b[i+3]) computed in
\* an int32: the shifted first byte reaches the sign bit and wraps.
BigEndian32Int32(b, i) ==
    << (IF b[i] >= 128 THEN b[i] - 256 ELSE b[i]) * 256 + b[i + 1],
       b[i + 2] * 256 + b[i + 3] >>

\* int(b[i])<<24 | int(b[i+1])<<16 | int(b[i+2])<<8 | int(b[i+3]), i counted
\* from 1, in the 64-bit int of the build: the four fields do not overlap, so
\* the bitwise or is their sum, and nothing reaches the sign bit.
BigEndian32(b, i) == << b[i] * 256 + b[i + 1], b[i + 2] * 256 + b[i + 3] >>

\* parseDims with the two fields taken in the other order.
parseDimsHeightFirst(b) ==
    IF Len(b) < 8
    THEN <<GoInt(DefaultWidth), GoInt(DefaultHeight)>>
    ELSE <<BigEndian32(b, 5), BigEndian32(b, 1)>>

\* parseDims that takes the width from a payload of four bytes or more.
parseDimsWidthOnly(b) ==
    IF Len(b) < 4
    THEN <<GoInt(DefaultWidth), GoInt(DefaultHeight)>>
    ELSE IF Len(b) < 8
         THEN <<BigEndian32(b, 1), GoInt(DefaultHeight)>>
         ELSE <<BigEndian32(b, 1), BigEndian32(b, 5)>>

parseDims(b) ==
    IF Len(b) < 8
    THEN <<GoInt(DefaultWidth), GoInt(DefaultHeight)>>
    ELSE <<BigEndian32(b, 1), BigEndian32(b, 5)>>

\* pty-req reads Payload[3], Payload[4 : 4+termLen] and Payload[4+termLen:]:
\* an index or a slice bound past the payload panics.
PtyReqPanics(payload) ==
    \/ Len(payload) < 4
    \/ 4 + payload[4] > Len(payload)
\* parseDims(req.Payload[4+termLen:]).
PtyReqDims(payload) ==
    parseDims(SubSeq(payload, 4 + payload[4] + 1, Len(payload)))

(***************************************************************************)
(* The requests a peer may send.                                            *)
(***************************************************************************)
WindowPayloads == { WindowChangePayload(120, 50), <<0, 0, 0>> }
ChannelInputs ==
      \* the terminal name is "xterm"
      { <<"pty-req", p>> :
            p \in { PtyReqPayload(<<120, 116, 101, 114, 109>>, 100, 40),
                    <<0, 0>> } }
 \cup { <<"window-change", p>> : p \in WindowPayloads }
 \cup { <<"shell", << >> >>, <<"env", << >> >>, <<"subsystem", << >> >> }

NoReq == [type |-> "", payload |-> << >>, n |-> 0]
NoSize == <<GoInt(0), GoInt(0)>>

VARIABLES
    crashed,   \* the process has died of an unrecovered panic
    acceptor,  \* where Start's accept loop stands
    conn,      \* per socket: its handleConnection goroutine and its peer
    stalled,   \* the connections whose peer neither sends nor reads
    sshch,     \* per accepted channel: the ssh.Channel and its request stream
    hc,        \* per accepted channel: handleChannel's position and locals
    pumps,     \* the copy goroutines, in the order they were started
    execs,     \* the runtime's exec sessions, by id
    streams,   \* the runtime's attached streams, by id
    calls,     \* the calls made to the runtime, in order
    nSent,     \* what the peers and the exec processes have done so far
    listener,  \* the listening socket of Start
    files,     \* the host key files, by path
    loads,     \* the calls of generateOrLoadHostKey, in the order they began
    cli        \* the run of a command of the tape tool: its inputs and results

vars == <<crashed, acceptor, conn, stalled, sshch, hc, pumps, execs, streams,
          calls, nSent, listener, files, loads, cli>>
connVars == <<acceptor, conn, stalled>>
startVars == <<listener, files, loads, cli>>
runtimeVars == <<execs, streams, calls>>

Running == ~crashed
Live(ch) == ch \in DOMAIN hc

OpenChannel ==
    [peerOpen |-> TRUE, srvClosed |-> FALSE, requests |-> << >>,
     reqsClosed |-> FALSE, arrived |-> 0, input |-> << >>, typed |-> 0,
     peerEOF |-> FALSE, sentEOF |-> FALSE, delivered |-> << >>,
     replies |-> << >>]

\* handleChannel at its first statement: var execID string, var hijackedResp.
NewHandler ==
    [pc |-> "init", cur |-> NoReq, execID |-> 0, hijackedResp |-> 0,
     begun |-> << >>, ended |-> << >>]

\* A write to the channel fails once it is closed or CloseWrite was called.
Writable(ch) ==
    /\ sshch[ch].peerOpen
    /\ ~sshch[ch].srvClosed
    /\ ~sshch[ch].sentEOF

\* A read from the channel returns EOF when nothing is buffered and the peer
\* has sent EOF or the channel is closed.
AtEOF(ch) ==
    /\ sshch[ch].input = << >>
    /\ sshch[ch].peerEOF \/ ~sshch[ch].peerOpen \/ sshch[ch].srvClosed

Reply(c, n, ok) == [c EXCEPT !.replies = Append(@, [n |-> n, ok |-> ok])]

Call(op, ch, n, id, tty, dims, ok) ==
    [op |-> op, ch |-> ch, n |-> n, id |-> id, tty |-> tty, dims |-> dims,
     ok |-> ok]

(***************************************************************************)
(* The peer's side of a channel.                                            *)
(***************************************************************************)
ClientRequest(ch, in, max) ==
    /\ Running /\ Live(ch)
    /\ sshch[ch].peerOpen /\ ~sshch[ch].srvClosed
    /\ ConnOf(ch) \notin stalled
    /\ nSent < max
    /\ nSent' = nSent + 1
    /\ sshch' = [sshch EXCEPT
                   ![ch].arrived = @ + 1,
                   ![ch].requests = Append(@, [type |-> in[1], payload |-> in[2],
                                               n |-> sshch[ch].arrived + 1])]
    /\ UNCHANGED <<crashed, connVars, startVars, hc, pumps, runtimeVars>>

ClientData(ch, max) ==
    /\ Running /\ Live(ch)
    /\ sshch[ch].peerOpen /\ ~sshch[ch].srvClosed /\ ~sshch[ch].peerEOF
    /\ ConnOf(ch) \notin stalled
    /\ nSent < max
    /\ nSent' = nSent + 1
    /\ sshch' = [sshch EXCEPT ![ch].typed = @ + 1,
                              ![ch].input = Append(@, sshch[ch].typed + 1)]
    /\ UNCHANGED <<crashed, connVars, startVars, hc, pumps, runtimeVars>>

ClientEOF(ch) ==
    /\ Running /\ Live(ch)
    /\ sshch[ch].peerOpen /\ ~sshch[ch].srvClosed /\ ~sshch[ch].peerEOF
    /\ ConnOf(ch) \notin stalled
    /\ sshch' = [sshch EXCEPT ![ch].peerEOF = TRUE]
    /\ UNCHANGED <<crashed, connVars, startVars, hc, pumps, runtimeVars, nSent>>

ClientClose(ch) ==
    /\ Running /\ Live(ch)
    /\ sshch[ch].peerOpen
    /\ ConnOf(ch) \notin stalled
    /\ sshch' = [sshch EXCEPT ![ch].peerOpen = FALSE, ![ch].reqsClosed = TRUE]
    /\ UNCHANGED <<crashed, connVars, startVars, hc, pumps, runtimeVars, nSent>>

(***************************************************************************)
(* handleChannel.                                                           *)
(***************************************************************************)
\* client.NewClientWithOpts: on an error handleChannel returns and the
\* deferred channel.Close() runs.
DockerClientInit(ch) ==
    /\ Running /\ Live(ch)
    /\ hc[ch].pc = "init"
    /\ \E ok \in BOOLEAN :
         IF ok
         THEN /\ hc' = [hc EXCEPT ![ch].pc = "loop"]
              /\ UNCHANGED sshch
         ELSE /\ hc' = [hc EXCEPT ![ch].pc = "done"]
              /\ sshch' = [sshch EXCEPT ![ch].srvClosed = TRUE,
                                        ![ch].reqsClosed = TRUE]
    /\ UNCHANGED <<crashed, connVars, startVars, pumps, runtimeVars, nSent>>

\* A loop that takes the request that arrived last.
NextRequestNewest(q) == q[Len(q)]
\* for req := range requests: the oldest request of the stream.
NextRequest(q) == Head(q)

Dequeue(ch) ==
    /\ Running /\ Live(ch)
    /\ hc[ch].pc = "loop"
    /\ sshch[ch].requests # << >>
    /\ LET req == NextRequest(sshch[ch].requests) IN
         /\ hc' = [hc EXCEPT ![ch].pc = "handle", ![ch].cur = req,
                             ![ch].begun = Append(@, req)]
         /\ sshch' = [sshch EXCEPT ![ch].requests =
                        SelectSeq(@, LAMBDA r : r.n # req.n)]
    /\ UNCHANGED <<crashed, connVars, startVars, pumps, runtimeVars, nSent>>

\* The request stream is closed and drained: the loop ends, handleChannel
\* returns, and the deferred dockerClient.Close() and channel.Close() run.
HandleChannelReturn(ch) ==
    /\ Running /\ Live(ch)
    /\ hc[ch].pc = "loop"
    /\ sshch[ch].requests = << >>
    /\ sshch[ch].reqsClosed
    /\ hc' = [hc EXCEPT ![ch].pc = "done"]
    /\ sshch' = [sshch EXCEPT ![ch].srvClosed = TRUE]
    /\ UNCHANGED <<crashed, connVars, startVars, pumps, runtimeVars, nSent>>

\* The end of a case (or its continue): back to the head of the loop.
Continue(h) == [h EXCEPT !.pc = "loop", !.cur = NoReq,
                         !.ended = Append(@, h.cur.n)]

(***************************************************************************)
(* The runtime's answers.  ContainerExecCreate returns a fresh id or an     *)
(* error.  ContainerExecAttach starts the exec and returns a fresh stream,  *)
(* or returns the zero HijackedResponse and an error; an exec is started    *)
(* once, so attaching to a started exec fails.  ContainerExecResize sets    *)
(* the session's size or returns an error; for the empty id it fails.       *)
(***************************************************************************)
NewExec(ch, tty) == [ch |-> ch, tty |-> tty, size |-> NoSize, started |-> FALSE]
NewStream(ch, id) ==
    [ch |-> ch, exec |-> id, out |-> << >>, produced |-> 0, eof |-> FALSE,
     closed |-> FALSE, stdin |-> << >>]
AttachAnswers(id) == IF execs[id].started THEN {FALSE} ELSE BOOLEAN

\* case "pty-req"
HandlePtyReq(ch) ==
    /\ Running /\ Live(ch)
    /\ hc[ch].pc = "handle"
    /\ hc[ch].cur.type = "pty-req"
    /\ IF PtyReqPanics(hc[ch].cur.payload)
       THEN /\ crashed' = TRUE
            /\ UNCHANGED <<hc, sshch, runtimeVars>>
       ELSE \E ok \in BOOLEAN :
              LET id == IF ok THEN Len(execs) + 1 ELSE 0 IN
              /\ calls' = Append(calls, Call("create", ch, hc[ch].cur.n, id,
                                             TRUE, NoSize, ok))
              /\ execs' = IF ok THEN Append(execs, NewExec(ch, TRUE)) ELSE execs
              /\ hc' = [hc EXCEPT ![ch] =
                          Continue([@ EXCEPT !.execID = IF ok THEN id ELSE @])]
              /\ sshch' = [sshch EXCEPT ![ch] = Reply(@, hc[ch].cur.n, ok)]
              /\ UNCHANGED <<crashed, streams>>
    /\ UNCHANGED <<connVars, startVars, pumps, nSent>>

\* case "shell" without the test of execID: a create for every shell.
ShellCreateAlways(ch) ==
    /\ Running /\ Live(ch)
    /\ hc[ch].pc = "handle"
    /\ hc[ch].cur.type = "shell"
    /\ \E ok \in BOOLEAN :
         LET id == IF ok THEN Len(execs) + 1 ELSE 0 IN
         /\ calls' = Append(calls, Call("create", ch, hc[ch].cur.n, id,
                                        FALSE, NoSize, ok))
         /\ execs' = IF ok THEN Append(execs, NewExec(ch, FALSE)) ELSE execs
         /\ IF ok
            THEN /\ hc' = [hc EXCEPT ![ch].execID = id, ![ch].pc = "attach"]
                 /\ UNCHANGED sshch
            ELSE /\ hc' = [hc EXCEPT ![ch] = Continue(@)]
                 /\ sshch' = [sshch EXCEPT ![ch] = Reply(@, hc[ch].cur.n, FALSE)]
    /\ UNCHANGED <<crashed, connVars, startVars, pumps, streams, nSent>>

\* case "shell", lines 143-160: create the exec when execID is empty.
ShellCreate(ch) ==
    /\ Running /\ Live(ch)
    /\ hc[ch].pc = "handle"
    /\ hc[ch].cur.type = "shell"
    /\ IF hc[ch].execID = 0
       THEN \E ok \in BOOLEAN :
              LET id == IF ok THEN Len(execs) + 1 ELSE 0 IN
              /\ calls' = Append(calls, Call("create", ch, hc[ch].cur.n, id,
                                             FALSE, NoSize, ok))
              /\ execs' = IF ok THEN Append(execs, NewExec(ch, FALSE)) ELSE execs
              /\ IF ok
                 THEN /\ hc' = [hc EXCEPT ![ch].execID = id, ![ch].pc = "attach"]
                      /\ UNCHANGED sshch
                 ELSE /\ hc' = [hc EXCEPT ![ch] = Continue(@)]
                      /\ sshch' = [sshch EXCEPT ![ch] = Reply(@, hc[ch].cur.n, FALSE)]
       ELSE /\ hc' = [hc EXCEPT ![ch].pc = "attach"]
            /\ UNCHANGED <<sshch, calls, execs>>
    /\ UNCHANGED <<crashed, connVars, startVars, pumps, streams, nSent>>

\* case "shell" without the continue after a failed attach: it replies
\* failure and falls through to the go statements.
ShellAttachNoContinue(ch) ==
    /\ Running /\ Live(ch)
    /\ hc[ch].pc = "attach"
    /\ \E ok \in AttachAnswers(hc[ch].execID) :
         LET s == IF ok THEN Len(streams) + 1 ELSE 0 IN
         /\ calls' = Append(calls, Call("attach", ch, hc[ch].cur.n,
                                        hc[ch].execID, TRUE, NoSize, ok))
         /\ streams' = IF ok THEN Append(streams, NewStream(ch, hc[ch].execID))
                       ELSE streams
         /\ execs' = IF ok THEN [execs EXCEPT ![hc[ch].execID].started = TRUE]
                     ELSE execs
         /\ sshch' = [sshch EXCEPT ![ch] = Reply(@, hc[ch].cur.n, ok)]
         /\ hc' = [hc EXCEPT ![ch].hijackedResp = s, ![ch].pc = "spawn"]
    /\ UNCHANGED <<crashed, connVars, startVars, pumps, nSent>>

\* case "shell" without the reply after a successful attach.
ShellAttachNoReply(ch) ==
    /\ Running /\ Live(ch)
    /\ hc[ch].pc = "attach"
    /\ \E ok \in AttachAnswers(hc[ch].execID) :
         LET s == IF ok THEN Len(streams) + 1 ELSE 0 IN
         /\ calls' = Append(calls, Call("attach", ch, hc[ch].cur.n,
                                        hc[ch].execID, TRUE, NoSize, ok))
         /\ streams' = IF ok THEN Append(streams, NewStream(ch, hc[ch].execID))
                       ELSE streams
         /\ execs' = IF ok THEN [execs EXCEPT ![hc[ch].execID].started = TRUE]
                     ELSE execs
         /\ sshch' = IF ok THEN sshch
                     ELSE [sshch EXCEPT ![ch] = Reply(@, hc[ch].cur.n, FALSE)]
         /\ hc' = [hc EXCEPT ![ch] =
                     IF ok THEN [@ EXCEPT !.hijackedResp = s, !.pc = "spawn"]
                     ELSE Continue([@ EXCEPT !.hijackedResp = 0])]
    /\ UNCHANGED <<crashed, connVars, startVars, pumps, nSent>>

\* case "shell", lines 162-174: attach, assign hijackedResp, reply.
ShellAttach(ch) ==
    /\ Running /\ Live(ch)
    /\ hc[ch].pc = "attach"
    /\ \E ok \in AttachAnswers(hc[ch].execID) :
         LET s == IF ok THEN Len(streams) + 1 ELSE 0 IN
         /\ calls' = Append(calls, Call("attach", ch, hc[ch].cur.n,
                                        hc[ch].execID, TRUE, NoSize, ok))
         /\ streams' = IF ok THEN Append(streams, NewStream(ch, hc[ch].execID))
                       ELSE streams
         /\ execs' = IF ok THEN [execs EXCEPT ![hc[ch].execID].started = TRUE]
                     ELSE execs
         /\ sshch' = [sshch EXCEPT ![ch] = Reply(@, hc[ch].cur.n, ok)]
         /\ hc' = [hc EXCEPT ![ch] =
                     IF ok THEN [@ EXCEPT !.hijackedResp = s, !.pc = "spawn"]
                     ELSE Continue([@ EXCEPT !.hijackedResp = 0])]
    /\ UNCHANGED <<crashed, connVars, startVars, pumps, nSent>>

NewPump(ch, dir, n) ==
    [ch |-> ch, dir |-> dir, n |-> n, pc |-> "start", src |-> 0, buf |-> 0,
     nread |-> 0, nwritten |-> 0, res |-> "", closeWrite |-> FALSE]

\* case "shell", lines 176-178: the two go statements.
ShellSpawn(ch) ==
    /\ Running /\ Live(ch)
    /\ hc[ch].pc = "spawn"
    /\ pumps' = pumps \o << NewPump(ch, "out", hc[ch].cur.n),
                            NewPump(ch, "in", hc[ch].cur.n) >>
    /\ hc' = [hc EXCEPT ![ch] = Continue(@)]
    /\ UNCHANGED <<crashed, connVars, startVars, sshch, runtimeVars, nSent>>

\* case "window-change"
HandleWindowChange(ch) ==
    /\ Running /\ Live(ch)
    /\ hc[ch].pc = "handle"
    /\ hc[ch].cur.type = "window-change"
    /\ LET dims == parseDims(hc[ch].cur.payload)
           id == hc[ch].execID
       IN \E ok \in (IF id = 0 THEN {FALSE} ELSE BOOLEAN) :
            /\ calls' = Append(calls, Call("resize", ch, hc[ch].cur.n, id,
                                           FALSE, dims, ok))
            /\ execs' = IF ok THEN [execs EXCEPT ![id].size = dims] ELSE execs
    /\ hc' = [hc EXCEPT ![ch] = Continue(@)]
    /\ UNCHANGED <<crashed, connVars, startVars, sshch, pumps, streams, nSent>>

\* case "env" that also forgets the session.
HandleEnvResets(ch) ==
    /\ Running /\ Live(ch)
    /\ hc[ch].pc = "handle"
    /\ hc[ch].cur.type = "env"
    /\ sshch' = [sshch EXCEPT ![ch] = Reply(@, hc[ch].cur.n, TRUE)]
    /\ hc' = [hc EXCEPT ![ch] = Continue([@ EXCEPT !.execID = 0])]
    /\ UNCHANGED <<crashed, connVars, startVars, pumps, runtimeVars, nSent>>

\* case "env"
HandleEnv(ch) ==
    /\ Running /\ Live(ch)
    /\ hc[ch].pc = "handle"
    /\ hc[ch].cur.type = "env"
    /\ sshch' = [sshch EXCEPT ![ch] = Reply(@, hc[ch].cur.n, TRUE)]
    /\ hc' = [hc EXCEPT ![ch] = Continue(@)]
    /\ UNCHANGED <<crashed, connVars, startVars, pumps, runtimeVars, nSent>>

\* default
HandleDefault(ch) ==
    /\ Running /\ Live(ch)
    /\ hc[ch].pc = "handle"
    /\ hc[ch].cur.type \notin {"pty-req", "shell", "window-change", "env"}
    /\ sshch' = [sshch EXCEPT ![ch] = Reply(@, hc[ch].cur.n, FALSE)]
    /\ hc' = [hc EXCEPT ![ch] = Continue(@)]
    /\ UNCHANGED <<crashed, connVars, startVars, pumps, runtimeVars, nSent>>

(***************************************************************************)
(* The copy goroutines.  Both were handed &hijackedResp, the address of     *)
(* handleChannel's variable: each reads the field it needs when it gets to  *)
(* run, and sees whatever the request loop has assigned by then.            *)
(***************************************************************************)
\* streamDockerToSSH evaluates hijacked.Reader for io.Copy: a nil Reader
\* panics inside io.Copy.
OutStart(i) ==
    /\ Running /\ i \in DOMAIN pumps
    /\ pumps[i].dir = "out" /\ pumps[i].pc = "start"
    /\ LET s == hc[pumps[i].ch].hijackedResp IN
         IF s = 0
         THEN crashed' = TRUE /\ UNCHANGED pumps
         ELSE pumps' = [pumps EXCEPT ![i].pc = "copy", ![i].src = s]
              /\ UNCHANGED crashed
    /\ UNCHANGED <<connVars, startVars, sshch, hc, runtimeVars, nSent>>

\* A copy that reads on while the byte it holds is not yet written.
OutReadAhead(i) ==
    /\ Running /\ i \in DOMAIN pumps
    /\ pumps[i].dir = "out" /\ pumps[i].pc = "copy"
    /\ LET s == pumps[i].src IN
         \/ /\ streams[s].closed
            /\ pumps' = [pumps EXCEPT ![i].res = "error", ![i].pc = "closewrite"]
            /\ UNCHANGED streams
         \/ /\ ~streams[s].closed
            /\ streams[s].out # << >>
            /\ pumps' = [pumps EXCEPT ![i].buf = Head(streams[s].out),
                                      ![i].nread = @ + 1]
            /\ streams' = [streams EXCEPT ![s].out = Tail(@)]
         \/ /\ ~streams[s].closed
            /\ streams[s].out = << >>
            /\ streams[s].eof
            /\ pumps' = [pumps EXCEPT ![i].res = "eof", ![i].pc = "closewrite"]
            /\ UNCHANGED streams
    /\ UNCHANGED <<crashed, connVars, startVars, sshch, hc, execs, calls, nSent>>

\* io.Copy's read from the exec stream.
OutRead(i) ==
    /\ Running /\ i \in DOMAIN pumps
    /\ pumps[i].dir = "out" /\ pumps[i].pc = "copy" /\ pumps[i].buf = 0
    /\ LET s == pumps[i].src IN
         \/ /\ streams[s].closed
            /\ pumps' = [pumps EXCEPT ![i].res = "error", ![i].pc = "closewrite"]
            /\ UNCHANGED streams
         \/ /\ ~streams[s].closed
            /\ streams[s].out # << >>
            /\ pumps' = [pumps EXCEPT ![i].buf = Head(streams[s].out),
                                      ![i].nread = @ + 1]
            /\ streams' = [streams EXCEPT ![s].out = Tail(@)]
         \/ /\ ~streams[s].closed
            /\ streams[s].out = << >>
            /\ streams[s].eof
            /\ pumps' = [pumps EXCEPT ![i].res = "eof", ![i].pc = "closewrite"]
            /\ UNCHANGED streams
    /\ UNCHANGED <<crashed, connVars, startVars, sshch, hc, execs, calls, nSent>>

\* io.Copy's write to the channel; it blocks while the peer does not read.
OutWrite(i) ==
    /\ Running /\ i \in DOMAIN pumps
    /\ pumps[i].dir = "out" /\ pumps[i].pc = "copy" /\ pumps[i].buf # 0
    /\ ConnOf(pumps[i].ch) \notin stalled
    /\ IF Writable(pumps[i].ch)
       THEN /\ sshch' = [sshch EXCEPT ![pumps[i].ch].delivered =
                           Append(@, <<pumps[i].src, pumps[i].buf>>)]
            /\ pumps' = [pumps EXCEPT ![i].buf = 0, ![i].nwritten = @ + 1]
       ELSE /\ pumps' = [pumps EXCEPT ![i].res = "error", ![i].pc = "closewrite"]
            /\ UNCHANGED sshch
    /\ UNCHANGED <<crashed, connVars, startVars, hc, runtimeVars, nSent>>

\* channel.CloseWrite()
OutCloseWrite(i) ==
    /\ Running /\ i \in DOMAIN pumps
    /\ pumps[i].dir = "out" /\ pumps[i].pc = "closewrite"
    /\ pumps' = [pumps EXCEPT ![i].pc = "close", ![i].closeWrite = TRUE]
    /\ sshch' = [sshch EXCEPT ![pumps[i].ch].sentEOF =
                   @ \/ Writable(pumps[i].ch)]
    /\ UNCHANGED <<crashed, connVars, startVars, hc, runtimeVars, nSent>>

\* defer hijacked.Close(): h.Conn.Close() on the current value; a nil Conn
\* panics.
OutClose(i) ==
    /\ Running /\ i \in DOMAIN pumps
    /\ pumps[i].dir = "out" /\ pumps[i].pc = "close"
    /\ LET s == hc[pumps[i].ch].hijackedResp IN
         IF s = 0
         THEN crashed' = TRUE /\ UNCHANGED <<pumps, streams>>
         ELSE /\ streams' = [streams EXCEPT ![s].closed = TRUE]
              /\ pumps' = [pumps EXCEPT ![i].pc = "done"]
              /\ UNCHANGED crashed
    /\ UNCHANGED <<connVars, startVars, sshch, hc, execs, calls, nSent>>

\* streamSSHToDocker evaluates hijacked.Conn for io.Copy.
InStart(i) ==
    /\ Running /\ i \in DOMAIN pumps
    /\ pumps[i].dir = "in" /\ pumps[i].pc = "start"
    /\ pumps' = [pumps EXCEPT ![i].pc = "copy",
                              ![i].src = hc[pumps[i].ch].hijackedResp]
    /\ UNCHANGED <<crashed, connVars, startVars, sshch, hc, runtimeVars, nSent>>

\* io.Copy's read from the channel; on EOF streamSSHToDocker returns.
InRead(i) ==
    /\ Running /\ i \in DOMAIN pumps
    /\ pumps[i].dir = "in" /\ pumps[i].pc = "copy" /\ pumps[i].buf = 0
    /\ LET ch == pumps[i].ch IN
         \/ /\ sshch[ch].input # << >>
            /\ pumps' = [pumps EXCEPT ![i].buf = Head(sshch[ch].input),
                                      ![i].nread = @ + 1]
            /\ sshch' = [sshch EXCEPT ![ch].input = Tail(@)]
         \/ /\ AtEOF(ch)
            /\ pumps' = [pumps EXCEPT ![i].res = "eof", ![i].pc = "done"]
            /\ UNCHANGED sshch
    /\ UNCHANGED <<crashed, connVars, startVars, hc, runtimeVars, nSent>>

\* io.Copy's write to hijacked.Conn; a nil Conn panics, a closed one fails
\* the copy.
InWrite(i) ==
    /\ Running /\ i \in DOMAIN pumps
    /\ pumps[i].dir = "in" /\ pumps[i].pc = "copy" /\ pumps[i].buf # 0
    /\ LET s == pumps[i].src IN
         IF s = 0
         THEN crashed' = TRUE /\ UNCHANGED <<pumps, streams>>
         ELSE /\ IF streams[s].closed
                 THEN /\ pumps' = [pumps EXCEPT ![i].res = "error",
                                                ![i].pc = "done"]
                      /\ UNCHANGED streams
                 ELSE /\ pumps' = [pumps EXCEPT ![i].buf = 0,
                                                ![i].nwritten = @ + 1]
                      /\ streams' = [streams EXCEPT ![s].stdin =
                                       Append(@, pumps[i].buf)]
              /\ UNCHANGED crashed
    /\ UNCHANGED <<connVars, startVars, sshch, hc, execs, calls, nSent>>

(***************************************************************************)
(* The exec process behind a stream.                                        *)
(***************************************************************************)
ExecProduce(s, max) ==
    /\ Running /\ s \in DOMAIN streams
    /\ ~streams[s].eof /\ ~streams[s].closed
    /\ nSent < max
    /\ nSent' = nSent + 1
    /\ streams' = [streams EXCEPT ![s].produced = @ + 1,
                                  ![s].out = Append(@, streams[s].produced + 1)]
    /\ UNCHANGED <<crashed, connVars, startVars, sshch, hc, pumps, execs, calls>>

ExecExit(s) ==
    /\ Running /\ s \in DOMAIN streams
    /\ ~streams[s].eof /\ ~streams[s].closed
    /\ streams' = [streams EXCEPT ![s].eof = TRUE]
    /\ UNCHANGED <<crashed, connVars, startVars, sshch, hc, pumps, execs, calls, nSent>>


(***************************************************************************)
(* Start's accept loop and handleConnection.                                *)
(***************************************************************************)
Users == {"dev", "root"}
Passwords == {"dev", "guess"}

\* offered: the credentials the handshake ended with; authed: NewServerConn
\* returned without error; asked: the kinds of the channels the peer asked
\* for, in order; rejected and handed: the positions in asked that were
\* rejected, and that were accepted and given to handleChannel.
NewConn == [pc |-> "free", peerGone |-> FALSE, newChans |-> << >>,
            opened |-> 0, rejected |-> << >>,
            offered |-> << >>, authed |-> FALSE, asked |-> << >>,
            handed |-> << >>]

\* A callback that looks at the user name alone.
PasswordCallbackUserOnly(user, pass) == user = sshUser
PasswordCallback(user, pass) == user = sshUser /\ pass = sshPassword

\* Where the accept loop stands: at Accept (AtAccept), or waiting for the
\* handler of a connection.
AtAccept == 0
\* handleConnection(conn, config) called in the loop: the loop waits for it.
HandleConnectionInline(c) == c
\* go handleConnection(conn, config): the loop goes on at once.
SpawnHandleConnection(c) == AtAccept


AcceptorReady ==
    \/ acceptor = AtAccept
    \/ acceptor \in Conns /\ conn[acceptor].pc = "closed"

\* listener.Accept() returns the next socket.
Accept(c) ==
    /\ Running
    /\ AcceptorReady
    /\ listener = "open"
    /\ conn[c].pc = "free"
    /\ \A d \in Conns : d < c => conn[d].pc # "free"
    /\ nSent < MaxServed
    /\ nSent' = nSent + 1
    /\ conn' = [conn EXCEPT ![c].pc = "handshake"]
    /\ acceptor' = SpawnHandleConnection(c)
    /\ UNCHANGED <<crashed, startVars, stalled, sshch, hc, pumps, runtimeVars>>

\* The listening socket is closed under the loop.
ListenerClose ==
    /\ Running
    /\ listener = "open"
    /\ listener' = "closed"
    /\ UNCHANGED <<crashed, connVars, cli, files, loads, sshch, hc, pumps,
                   runtimeVars, nSent>>

\* listener.Accept() returns an error: the loop logs it and continues.
AcceptFails ==
    /\ Running
    /\ AcceptorReady
    /\ listener = "closed"
    /\ acceptor' = AtAccept
    /\ UNCHANGED <<crashed, startVars, conn, stalled, sshch, hc, pumps,
                   runtimeVars, nSent>>

\* ssh.NewServerConn returns: the peer has authenticated, or has failed to
\* and handleConnection returns through conn.Close().
\* A handleConnection that goes on after NewServerConn returned an error.
HandshakeIgnoresError(c, user, pass) ==
    /\ Running
    /\ conn[c].pc = "handshake"
    /\ ~conn[c].peerGone
    /\ c \notin stalled
    /\ conn' = [conn EXCEPT ![c].pc = "serving",
                            ![c].offered = <<user, pass>>,
                            ![c].authed = PasswordCallback(user, pass)]
    /\ UNCHANGED <<crashed, startVars, acceptor, stalled, sshch, hc, pumps, runtimeVars, nSent>>

\* A handleConnection that ends the process when NewServerConn fails.
HandshakeFatal(c, user, pass) ==
    /\ Running
    /\ conn[c].pc = "handshake"
    /\ ~conn[c].peerGone
    /\ c \notin stalled
    /\ conn' = [conn EXCEPT ![c].pc =
                  IF PasswordCallback(user, pass) THEN "serving" ELSE "closed",
                            ![c].offered = <<user, pass>>,
                            ![c].authed = PasswordCallback(user, pass)]
    /\ crashed' = ~PasswordCallback(user, pass)
    /\ UNCHANGED <<startVars, acceptor, stalled, sshch, hc, pumps, runtimeVars, nSent>>

Handshake(c, user, pass) ==
    /\ Running
    /\ conn[c].pc = "handshake"
    /\ ~conn[c].peerGone
    /\ c \notin stalled
    /\ conn' = [conn EXCEPT ![c].pc =
                  IF PasswordCallback(user, pass) THEN "serving" ELSE "closed",
                            ![c].offered = <<user, pass>>,
                            ![c].authed = PasswordCallback(user, pass)]
    /\ UNCHANGED <<crashed, startVars, acceptor, stalled, sshch, hc, pumps, runtimeVars, nSent>>

\* ssh.NewServerConn fails because the socket is gone.
HandshakeAbort(c) ==
    /\ Running
    /\ conn[c].pc = "handshake"
    /\ conn[c].peerGone
    /\ conn' = [conn EXCEPT ![c].pc = "closed"]
    /\ UNCHANGED <<crashed, startVars, acceptor, stalled, sshch, hc, pumps, runtimeVars, nSent>>

\* The peer asks for a channel.
PeerOpenChannel(c, kind) ==
    /\ Running
    /\ conn[c].pc = "serving"
    /\ ~conn[c].peerGone
    /\ c \notin stalled
    /\ IF kind = "session"
       THEN conn[c].opened < MaxChans
       ELSE Len(conn[c].asked) - conn[c].opened < MaxOther
    /\ nSent < MaxServed
    /\ nSent' = nSent + 1
    /\ LET k == IF kind = "session" THEN conn[c].opened + 1 ELSE 0
       IN conn' = [conn EXCEPT ![c].opened = IF kind = "session" THEN @ + 1 ELSE @,
                               ![c].asked = Append(@, kind),
                               ![c].newChans =
                                   Append(@, [k |-> k, kind |-> kind,
                                              seq |-> Len(conn[c].asked) + 1])]
    /\ UNCHANGED <<crashed, startVars, acceptor, stalled, sshch, hc, pumps, runtimeVars>>

\* ch.Accept() fails on a connection that is gone.
AcceptAnswers(c) == IF conn[c].peerGone THEN {FALSE} ELSE BOOLEAN

\* A loop over chans that accepts a channel of any kind.
HandleNewChannelAnyKind(c) ==
    /\ Running
    /\ conn[c].pc = "serving"
    /\ conn[c].newChans # << >>
    /\ LET nc == Head(conn[c].newChans)
           ch == <<c, nc.k>>
       IN \E ok \in AcceptAnswers(c) :
            /\ conn' = [conn EXCEPT ![c].newChans = Tail(@),
                                    ![c].handed = IF ok THEN Append(@, nc.seq)
                                                  ELSE @]
            /\ IF ok
               THEN /\ sshch' = [x \in DOMAIN sshch \cup {ch} |->
                                   IF x = ch THEN OpenChannel ELSE sshch[x]]
                    /\ hc' = [x \in DOMAIN hc \cup {ch} |->
                                IF x = ch THEN NewHandler ELSE hc[x]]
               ELSE UNCHANGED <<sshch, hc>>
    /\ UNCHANGED <<crashed, startVars, acceptor, stalled, pumps, runtimeVars, nSent>>

\* One turn of for ch := range chans.
HandleNewChannel(c) ==
    /\ Running
    /\ conn[c].pc = "serving"
    /\ conn[c].newChans # << >>
    /\ LET nc == Head(conn[c].newChans)
           ch == <<c, nc.k>>
       IN IF nc.kind # "session"
          THEN /\ conn' = [conn EXCEPT ![c].newChans = Tail(@),
                                       ![c].rejected = Append(@, nc.seq)]
               /\ UNCHANGED <<sshch, hc>>
          ELSE \E ok \in AcceptAnswers(c) :
                 /\ conn' = [conn EXCEPT ![c].newChans = Tail(@),
                                         ![c].handed = IF ok THEN Append(@, nc.seq)
                                                       ELSE @]
                 /\ IF ok
                    THEN /\ sshch' = [x \in DOMAIN sshch \cup {ch} |->
                                        IF x = ch THEN OpenChannel ELSE sshch[x]]
                         /\ hc' = [x \in DOMAIN hc \cup {ch} |->
                                     IF x = ch THEN NewHandler ELSE hc[x]]
                    ELSE UNCHANGED <<sshch, hc>>
    /\ UNCHANGED <<crashed, startVars, acceptor, stalled, pumps, runtimeVars, nSent>>

\* The peer closes the socket: its channels and their request streams close.
PeerDisconnect(c) ==
    /\ Running
    /\ conn[c].pc \in {"handshake", "serving"}
    /\ ~conn[c].peerGone
    /\ c \notin stalled
    /\ nSent < MaxServed
    /\ nSent' = nSent + 1
    /\ conn' = [conn EXCEPT ![c].peerGone = TRUE]
    /\ sshch' = [ch \in DOMAIN sshch |->
                   IF ConnOf(ch) = c
                   THEN [sshch[ch] EXCEPT !.peerOpen = FALSE, !.reqsClosed = TRUE]
                   ELSE sshch[ch]]
    /\ UNCHANGED <<crashed, startVars, acceptor, stalled, hc, pumps, runtimeVars>>

\* chans is closed and drained: handleConnection returns.
HandleConnectionReturn(c) ==
    /\ Running
    /\ conn[c].pc = "serving"
    /\ conn[c].peerGone
    /\ conn[c].newChans = << >>
    /\ conn' = [conn EXCEPT ![c].pc = "closed"]
    /\ UNCHANGED <<crashed, startVars, acceptor, stalled, sshch, hc, pumps, runtimeVars, nSent>>

\* A peer stops sending and reading, and may resume.
Stall(c) ==
    /\ Running
    /\ conn[c].pc \in {"handshake", "serving"}
    /\ ~conn[c].peerGone
    /\ c \notin stalled
    /\ stalled' = stalled \cup {c}
    /\ UNCHANGED <<crashed, startVars, acceptor, conn, sshch, hc, pumps, runtimeVars, nSent>>

Resume(c) ==
    /\ Running
    /\ c \in stalled
    /\ stalled' = stalled \ {c}
    /\ UNCHANGED <<crashed, startVars, acceptor, conn, sshch, hc, pumps, runtimeVars, nSent>>

(***************************************************************************)
(* The host key: generateOrLoadHostKey, generateSSHKey and what Start does  *)
(* with their result.                                                       *)
(***************************************************************************)
hostKeyPath == "hostkey"
\* The process runs the ssh server: no other command of the tool is run.
NoCommand == [cmd |-> "ssh"]
Paths == {hostKeyPath, "hostkey2"}

\* A private key in the OPENSSH PRIVATE KEY armour, as far as the parser
\* looks at it: the armour, the public key, the length field of the comment,
\* and the bytes of the private block that follow that field (the comment
\* and the padding).
KeyText(pub, commentLen, rest) ==
    [pem |-> TRUE, pub |-> pub, commentLen |-> commentLen, rest |-> rest]

\* "user@docker-ssh-proxy"
ProxyComment == <<117, 115, 101, 114, 64, 100, 111, 99, 107, 101, 114, 45,
                  115, 115, 104, 45, 112, 114, 111, 120, 121>>

\* The literal of generateSSHKey: the comment's length field says 20, and
\* 21 bytes follow it.
generateSSHKey == KeyText("WCup/h40", 20, ProxyComment)

\* A key as ssh-keygen writes one: a comment of 20 bytes and one byte of
\* padding.
InstalledKey == KeyText("installed", 20, SubSeq(ProxyComment, 1, 20) \o <<1>>)
\* A file that holds no key, and a file of no bytes.
Garbage == [pem |-> FALSE, pub |-> "", commentLen |-> 0, rest |-> <<0>>]
NoBytes == [pem |-> FALSE, pub |-> "", commentLen |-> 0, rest |-> << >>]

NoFile == [exists |-> FALSE, readable |-> FALSE, data |-> NoBytes]
File(data) == [exists |-> TRUE, readable |-> TRUE, data |-> data]
Unreadable(data) == [exists |-> TRUE, readable |-> FALSE, data |-> data]

NoSigner == ""
\* ssh.ParsePrivateKey: the signer of the key, or an error.
ParsePrivateKey(key) ==
    IF ~key.pem
    THEN [signer |-> NoSigner, err |-> "ssh: no key found"]
    ELSE IF Len(key.rest) < key.commentLen
    THEN [signer |-> NoSigner, err |-> "ssh: short read"]
    \* the padding of the private block is 1, 2, 3, ...
    ELSE IF \E i \in 1..(Len(key.rest) - key.commentLen) :
                key.rest[key.commentLen + i] # i
    THEN [signer |-> NoSigner, err |-> "ssh: padding not as expected"]
    ELSE [signer |-> key.pub, err |-> ""]

\* A server that listens: its Start has loaded a host key from hostKeyPath.
Listening ==
    /\ listener = "open"
    /\ files = [p \in Paths |-> IF p = hostKeyPath THEN File(InstalledKey)
                                 ELSE NoFile]
    /\ loads = << >>
    /\ cli = NoCommand

\* One call of generateOrLoadHostKey(path) by Start. absent: what os.Stat
\* found; wrote: os.WriteFile returned nil; before: the file when the call
\* began.
NewLoad(path) ==
    [pc |-> "stat", path |-> path, absent |-> FALSE, wrote |-> FALSE,
     key |-> NoBytes, signer |-> NoSigner, err |-> "", before |-> files[path]]

Finished(l) == loads[l].pc \in {"fatal", "listen"}

\* Start calls generateOrLoadHostKey(path); overlap says whether an earlier
\* Start may still be at work.
BeginLoad(path, overlap) ==
    /\ Len(loads) < MaxLoads
    /\ overlap \/ \A l \in 1..Len(loads) : Finished(l)
    /\ loads' = Append(loads, NewLoad(path))
    /\ UNCHANGED <<crashed, connVars, cli, listener, files, sshch, hc, pumps,
                   runtimeVars, nSent>>

AtLoad(l, pc) == l \in 1..Len(loads) /\ loads[l].pc = pc

\* A test that takes a file that cannot be read for no file.
StatKeyUnreadableIsAbsent(l) ==
    /\ AtLoad(l, "stat")
    /\ LET f == files[loads[l].path]
       IN loads' = [loads EXCEPT ![l].absent = ~(f.exists /\ f.readable),
                                 ![l].pc = IF f.exists /\ f.readable
                                           THEN "read" ELSE "generate"]
    /\ UNCHANGED <<crashed, connVars, cli, listener, files, sshch, hc, pumps,
                   runtimeVars, nSent>>

\* os.Stat(path) and os.IsNotExist(err).
StatKey(l) ==
    /\ AtLoad(l, "stat")
    /\ loads' = [loads EXCEPT ![l].absent = ~files[loads[l].path].exists,
                              ![l].pc = IF files[loads[l].path].exists
                                        THEN "read" ELSE "generate"]
    /\ UNCHANGED <<crashed, connVars, cli, listener, files, sshch, hc, pumps,
                   runtimeVars, nSent>>

\* key, err := generateSSHKey().
GenerateKey(l) ==
    /\ AtLoad(l, "generate")
    /\ loads' = [loads EXCEPT ![l].key = generateSSHKey, ![l].pc = "create"]
    /\ UNCHANGED <<crashed, connVars, cli, listener, files, sshch, hc, pumps,
                   runtimeVars, nSent>>

\* os.WriteFile opens the file, creating it or cutting it to no bytes, or
\* fails to.
CreateKeyFile(l, ok) ==
    /\ AtLoad(l, "create")
    /\ IF ok
       THEN /\ files' = [files EXCEPT ![loads[l].path] = File(NoBytes)]
            /\ loads' = [loads EXCEPT ![l].pc = "write"]
       ELSE /\ loads' = [loads EXCEPT ![l].pc = "return",
                                      ![l].err = "open: permission denied"]
            /\ UNCHANGED files
    /\ UNCHANGED <<crashed, connVars, cli, listener, sshch, hc, pumps,
                   runtimeVars, nSent>>

\* os.WriteFile writes the key and closes the file.
WriteKeyFile(l) ==
    /\ AtLoad(l, "write")
    /\ files' = [files EXCEPT ![loads[l].path] = File(loads[l].key)]
    /\ loads' = [loads EXCEPT ![l].pc = "parse", ![l].wrote = TRUE]
    /\ UNCHANGED <<crashed, connVars, cli, listener, sshch, hc, pumps,
                   runtimeVars, nSent>>

\* key, err := os.ReadFile(path).
ReadKeyFile(l) ==
    /\ AtLoad(l, "read")
    /\ LET f == files[loads[l].path]
       IN loads' = IF f.exists /\ f.readable
                   THEN [loads EXCEPT ![l].key = f.data, ![l].pc = "parse"]
                   ELSE [loads EXCEPT ![l].pc = "return",
                                      ![l].err = "open: cannot read"]
    /\ UNCHANGED <<crashed, connVars, cli, listener, files, sshch, hc, pumps,
                   runtimeVars, nSent>>

\* signer, err := ssh.ParsePrivateKey(key), on either path.
ParseKey(l) ==
    /\ AtLoad(l, "parse")
    /\ LET r == ParsePrivateKey(loads[l].key)
       IN loads' = [loads EXCEPT ![l].signer = r.signer, ![l].err = r.err,
                                 ![l].pc = "return"]
    /\ UNCHANGED <<crashed, connVars, cli, listener, files, sshch, hc, pumps,
                   runtimeVars, nSent>>

\* generateOrLoadHostKey returns to Start, which ends the process with
\* log.Fatalf on an error and goes on to net.Listen otherwise.
LoadReturn(l) ==
    /\ AtLoad(l, "return")
    /\ loads' = [loads EXCEPT ![l].pc = IF loads[l].err # "" THEN "fatal"
                                        ELSE "listen"]
    /\ UNCHANGED <<crashed, connVars, cli, listener, files, sshch, hc, pumps,
                   runtimeVars, nSent>>


LoadStep(l) ==
    \/ StatKey(l)
    \/ GenerateKey(l)
    \/ \E ok \in BOOLEAN : CreateKeyFile(l, ok)
    \/ WriteKeyFile(l)
    \/ ReadKeyFile(l)
    \/ ParseKey(l)
    \/ LoadReturn(l)

(***************************************************************************)
(* The commands of the tape tool.  While one runs, no ssh server does.      *)
(***************************************************************************)
serverVars == <<crashed, connVars, listener, files, loads, sshch, hc, pumps,
                runtimeVars, nSent>>

NoServer ==
    /\ crashed = FALSE
    /\ acceptor = AtAccept
    /\ conn = [c \in Conns |-> NewConn]
    /\ stalled = {}
    /\ sshch = [ch \in {} |-> OpenChannel]
    /\ hc = [ch \in {} |-> NewHandler]
    /\ pumps = << >>
    /\ execs = << >>
    /\ streams = << >>
    /\ calls = << >>
    /\ nSent = 0
    /\ listener = "none"
    /\ files = [p \in Paths |-> NoFile]
    /\ loads = << >>

SeqsUpTo(S, n) == UNION { [1..k -> S] : k \in 0..n }

(***************************************************************************)
(* DevcontainerCommand.Execute: the argument vector.                        *)
(***************************************************************************)
\* What is configured for a box: its workspace, its config path and its
\* mounts.
Boxes ==
    [workspace : {"/test/workspace"},
     config : {"", "/test/workspace/.devcontainer/devcontainer.json"},
     mounts : SeqsUpTo({"type=bind,source=/src,target=/dst",
                        "type=volume,source=myvol,target=/app"}, MaxMounts)]

\* type BoxConfig struct: Name, Workspace and Config are its fields.
BoxConfig(box) ==
    [Name |-> "testbox", Workspace |-> box.workspace, Config |-> box.config]

\* The devConArgs of Execute.
devConArgs(dc) ==
    <<"devcontainer", dc.Command, "--workspace-folder", dc.BoxConfig.Workspace>>
    \o (IF dc.BoxConfig.Config # ""
        THEN <<"--config", "/tmp/devcontainer.json">>
        ELSE << >>)
    \o dc.AdditionalArgs

\* Execute builds the argument vector and goes on to run it.
ExecuteBuildArgs ==
    /\ cli.cmd = "devcontainer" /\ cli.pc = "build"
    /\ cli' = [cli EXCEPT !.argv =
                   devConArgs([BoxConfig |-> BoxConfig(cli.box),
                               Command |-> cli.command,
                               AdditionalArgs |-> cli.additional]),
                          !.pc = "run"]
    /\ UNCHANGED serverVars

InitArgs ==
    /\ NoServer
    /\ \E box \in Boxes : \E command \in {"up", "exec"} :
       \E additional \in SeqsUpTo({"--some-extra-arg", "--other"}, MaxArgs) :
           cli = [cmd |-> "devcontainer", pc |-> "build", box |-> box,
                  command |-> command, additional |-> additional,
                  argv |-> << >>]


SpecArgs == InitArgs /\ [][ExecuteBuildArgs]_vars

(***************************************************************************)
(* devcontainer.json: DevContainerConfig, its union-typed values, and       *)
(* encoding/json as they use it.  A JSON value carries its kind; a Go       *)
(* value held in an interface{} carries its dynamic type.                   *)
(***************************************************************************)
Absent == [k |-> "absent"]
JString(s) == [k |-> "string", v |-> s]
JNumber(n) == [k |-> "number", v |-> n]
JBool(b) == [k |-> "bool", v |-> b]
JArray(a) == [k |-> "array", v |-> a]
JObject(o) == [k |-> "object", v |-> o]

GoNil == [t |-> "nil"]
Go(t, v) == [t |-> t, v |-> v]
NoError == ""

\* json.Unmarshal into an interface{}: numbers become float64.
RECURSIVE UnmarshalAny(_)
UnmarshalAny(j) ==
    CASE j.k = "string" -> Go("string", j.v)
      [] j.k = "number" -> Go("float64", j.v)
      [] j.k = "bool" -> Go("bool", j.v)
      [] j.k = "array" ->
             Go("[]interface{}", [i \in DOMAIN j.v |-> UnmarshalAny(j.v[i])])
      [] j.k = "object" ->
             Go("map[string]interface{}",
                [f \in DOMAIN j.v |-> UnmarshalAny(j.v[f])])

\* json.Marshal of the value an interface{} holds.
RECURSIVE MarshalAny(_)
MarshalAny(g) ==
    CASE g.t = "string" -> JString(g.v)
      [] g.t \in {"int", "float64"} -> JNumber(g.v)
      [] g.t = "bool" -> JBool(g.v)
      [] g.t = "[]string" -> JArray([i \in DOMAIN g.v |-> JString(g.v[i])])
      [] g.t = "[]interface{}" ->
             JArray([i \in DOMAIN g.v |-> MarshalAny(g.v[i])])
      [] g.t = "map[string]interface{}" ->
             JObject([f \in DOMAIN g.v |-> MarshalAny(g.v[f])])

AllOfKind(j, kinds) == \A i \in DOMAIN j.v : j.v[i].k \in kinds
Strings(j) == [i \in DOMAIN j.v |-> j.v[i].v]

\* An UnmarshalJSON that decodes into an interface{} at once: a number
\* becomes a float64.
AppPortUnmarshalAny(j) ==
    IF j.k \in {"number", "string"} \/ (j.k = "array" /\ AllOfKind(j, {"number", "string"}))
    THEN [value |-> UnmarshalAny(j), err |-> NoError]
    ELSE [value |-> GoNil, err |-> "cannot unmarshal into AppPortValue"]

\* (*AppPortValue).UnmarshalJSON: an int, then a string, then an array of
\* numbers and strings.
AppPortUnmarshalJSON(j) ==
    CASE j.k = "number" -> [value |-> Go("int", j.v), err |-> NoError]
      [] j.k = "string" -> [value |-> Go("string", j.v), err |-> NoError]
      [] j.k = "array" /\ AllOfKind(j, {"number", "string"}) ->
             [value |-> UnmarshalAny(j), err |-> NoError]
      [] j.k = "array" /\ ~AllOfKind(j, {"number", "string"}) ->
             [value |-> GoNil, err |-> "array contains invalid type"]
      [] OTHER -> [value |-> GoNil, err |-> "cannot unmarshal into AppPortValue"]

\* (*ComposeFileValue).UnmarshalJSON: a string, then an array of strings.
ComposeFileUnmarshalJSON(j) ==
    CASE j.k = "string" -> [value |-> Go("string", j.v), err |-> NoError]
      [] j.k = "array" /\ AllOfKind(j, {"string"}) ->
             [value |-> Go("[]string", Strings(j)), err |-> NoError]
      [] OTHER -> [value |-> GoNil,
                   err |-> "cannot unmarshal into ComposeFileValue"]

\* (*CommandValue).UnmarshalJSON: a string, then an array of strings, then
\* an object.
CommandUnmarshalJSON(j) ==
    CASE j.k = "string" -> [value |-> Go("string", j.v), err |-> NoError]
      [] j.k = "array" /\ AllOfKind(j, {"string"}) ->
             [value |-> Go("[]string", Strings(j)), err |-> NoError]
      [] j.k = "object" -> [value |-> UnmarshalAny(j), err |-> NoError]
      [] OTHER -> [value |-> GoNil, err |-> "cannot unmarshal into CommandValue"]

\* The accessors: the value when it has the accessor's type, the zero value
\* of the result otherwise.
IsType(c, t) == c.value.t = t
AsType(c, t, zero) == IF c.value.t = t THEN c.value.v ELSE zero
NilSlice == [nil |-> TRUE]
AppPortAsInt(a) == AsType(a, "int", 0)
AppPortAsString(a) == AsType(a, "string", "")
AppPortAsArray(a) == AsType(a, "[]interface{}", NilSlice)
ComposeFileAsString(c) == AsType(c, "string", "")
ComposeFileAsArray(c) == AsType(c, "[]string", NilSlice)
CommandIsString(c) == IsType(c, "string")
CommandIsArray(c) == IsType(c, "[]string")
CommandIsObject(c) == IsType(c, "map[string]interface{}")

\* A field of a union type behind a pointer whose key is missing: nil.
NilUnion == [value |-> GoNil, err |-> NoError]

\* json.Unmarshal(data, &container): the fields of DevContainerConfig the
\* document can set, one of each type.
UnmarshalConfig(doc) ==
    LET appPort == IF doc.appPort = Absent THEN NilUnion
                   ELSE AppPortUnmarshalJSON(doc.appPort)
        command == IF doc.initializeCommand = Absent THEN NilUnion
                   ELSE CommandUnmarshalJSON(doc.initializeCommand)
        compose == IF doc.dockerComposeFile = Absent THEN NilUnion
                   ELSE ComposeFileUnmarshalJSON(doc.dockerComposeFile)
        errs == {appPort.err, command.err, compose.err} \ {NoError}
    IN [err |-> IF errs = {} THEN NoError ELSE CHOOSE e \in errs : TRUE,
        Name |-> IF doc.name = Absent THEN "" ELSE doc.name.v,
        Mounts |-> IF doc.mounts = Absent THEN GoNil
                   ELSE Go("[]string", Strings(doc.mounts)),
        Features |-> IF doc.features = Absent THEN GoNil
                     ELSE UnmarshalAny(doc.features),
        OverrideCommand |-> IF doc.overrideCommand = Absent THEN GoNil
                            ELSE Go("bool", doc.overrideCommand.v),
        AppPort |-> [value |-> appPort.value],
        InitializeCommand |-> [value |-> command.value],
        DockerComposeFile |-> [value |-> compose.value]]

\* The omitempty of a field's tag: a nil pointer, an empty string and an
\* empty slice or map are left out.
OmitEmpty(g) ==
    IF g.t = "nil" THEN Absent
    ELSE IF g.t \in {"[]string", "[]interface{}"} /\ g.v = << >> THEN Absent
    ELSE IF g.t = "map[string]interface{}" /\ DOMAIN g.v = {} THEN Absent
    ELSE IF g.t = "string" /\ g.v = "" THEN Absent
    ELSE MarshalAny(g)

\* A Marshal that leaves out a union value that is empty, as it does for
\* the plain fields.
OmitNilOrEmpty(u) == OmitEmpty(u.value)

\* A pointer to a union value: left out when nil, else its MarshalJSON,
\* json.Marshal(value).
OmitNil(u) == IF u.value.t = "nil" THEN Absent ELSE MarshalAny(u.value)

\* json.Marshal(config).
MarshalConfig(c) ==
    [name |-> OmitEmpty(Go("string", c.Name)),
     mounts |-> OmitEmpty(c.Mounts),
     features |-> OmitEmpty(c.Features),
     overrideCommand |-> IF c.OverrideCommand.t = "nil" THEN Absent
                         ELSE MarshalAny(c.OverrideCommand),
     appPort |-> OmitNil(c.AppPort),
     initializeCommand |-> OmitNil(c.InitializeCommand),
     dockerComposeFile |-> OmitNil(c.DockerComposeFile)]

\* The documents: each key is missing or has one of a few values of the
\* kinds its field takes, the empty ones included.
Documents ==
    [name : {Absent, JString(""), JString("dev-container")},
     mounts : {Absent, JArray(<< >>), JArray(<<JString("type=bind")>>)},
     features : {Absent, JObject(<< >>),
                 JObject([version |-> JString("lts")])},
     overrideCommand : {Absent, JBool(TRUE), JBool(FALSE)},
     appPort : {Absent, JNumber(3000), JNumber(0), JString("3000:3000"),
                JString(""), JArray(<<JNumber(80), JString("443:8443")>>),
                JArray(<< >>), JBool(TRUE)},
     initializeCommand : {Absent, JString("make"),
                          JArray(<<JString("make"), JString("all")>>),
                          JObject([build |-> JString("make")])},
     dockerComposeFile : {Absent, JString("compose.yml"),
                          JArray(<<JString("a.yml"), JString("b.yml")>>)}]

\* ParseDevContainer(data).
ParseDevContainer ==
    /\ cli.cmd = "config" /\ cli.pc = "parse"
    /\ LET c == UnmarshalConfig(cli.input)
       IN cli' = IF c.err # NoError
                 THEN [cli EXCEPT !.pc = "failed", !.err = c.err]
                 ELSE [cli EXCEPT !.pc = "parsed", !.config = c]
    /\ UNCHANGED serverVars

\* SaveDevContainerToFile: the configuration is serialized again.
SaveDevContainer ==
    /\ cli.cmd = "config" /\ cli.pc = "parsed"
    /\ cli' = [cli EXCEPT !.pc = "saved", !.output = MarshalConfig(cli.config)]
    /\ UNCHANGED serverVars

InitConfig ==
    /\ NoServer
    /\ \E doc \in Documents :
           cli = [cmd |-> "config", pc |-> "parse", input |-> doc,
                  config |-> GoNil, output |-> Absent, err |-> NoError]

NextConfig ==
    \/ ParseDevContainer
    \/ SaveDevContainer

SpecConfig == InitConfig /\ [][NextConfig]_vars

(***************************************************************************)
(* The stop and rm commands: GetBoxSummary, FindDevContainer and            *)
(* FindContainer over the containers the runtime lists.                     *)
(***************************************************************************)
HostFolderLabel == "devcontainer.local_folder"
ConfigFileLabel == "devcontainer.config_file"

\* The containers of the runtime, in the order it lists them.  A container
\* carries a label when it has it with the value of this box (its workspace,
\* its config file).
Containers ==
    [Labels : SUBSET {HostFolderLabel, ConfigFileLabel},
     Status : {"Up 2 hours", "Removing"},
     State : {"running", "exited", "created"}]

NoSummary == [ID |-> 0, Labels |-> {}, Status |-> "", State |-> ""]

\* ListContainers(labels): cli.ContainerList with All: true and one label
\* filter per label gives the container.Summary of every container that
\* carries every label, or the runtime fails.
ListContainers(world, labels, ok) ==
    LET Summary(i) == [ID |-> i, Labels |-> world[i].Labels,
                       Status |-> world[i].Status, State |-> world[i].State]
        Carries(c) == labels \subseteq c.Labels
    IN IF ok
       THEN [containers |-> SelectSeq([i \in 1..Len(world) |-> Summary(i)],
                                      Carries),
             err |-> NoError]
       ELSE [containers |-> << >>, err |-> "error listing containers"]

\* The error type of package core, and the one of package container.
ContainerNotFoundError == "*core.ContainerNotFoundError"

IsContainerNotFoundAnyError(err) == err # NoError

\* core.IsContainerNotFound: err.(*ContainerNotFoundError) in package core.
IsContainerNotFound(err) == err = ContainerNotFoundError

\* container.IsContainerNotFound, which box.go calls: the assertion is to
\* the type *ContainerNotFoundError of package container.
containerIsContainerNotFound(err) == err = "*container.ContainerNotFoundError"

\* FindContainer(labels): the first listed container whose status is not
\* "Removing", or the not-found error.
FindContainer(world, labels, ok) ==
    LET list == ListContainers(world, labels, ok)
        NotRemoving(c) == c.Status # "Removing"
        filteredContainers == SelectSeq(list.containers, NotRemoving)
    IN IF list.err # NoError THEN [summary |-> NoSummary, err |-> list.err]
       ELSE IF Len(filteredContainers) > 0
            THEN [summary |-> filteredContainers[1], err |-> NoError]
            ELSE [summary |-> NoSummary, err |-> ContainerNotFoundError]

\* type BoxState and its constants.
BoxState ==
    [Running |-> "running", Stopped |-> "stopped",
     DoesNotExist |-> "does-not-exist", Unknown |-> "unknown"]

BoxCommand(c) == c.cmd \in {"stop", "rm"}

\* GetBoxSummary begins with LoadBoxConfig, whose error it returns.
LoadBoxConfig ==
    /\ BoxCommand(cli) /\ cli.pc = "load"
    /\ cli' = IF cli.configOk
              THEN [cli EXCEPT !.pc = "find"]
              ELSE [cli EXCEPT !.pc = "returned",
                               !.err = "error reading config file"]
    /\ UNCHANGED serverVars

\* FindDevContainer: the search with the host folder label and the config
\* file label; on the not-found error it goes on to the second search.
FindDevContainerFirst ==
    /\ BoxCommand(cli) /\ cli.pc = "find"
    /\ \E ok \in BOOLEAN :
        LET labels == {HostFolderLabel, ConfigFileLabel}
            r == FindContainer(cli.world, labels, ok)
            searched == Append(cli.searches, [labels |-> labels, err |-> r.err])
        IN cli' = IF IsContainerNotFound(r.err)
                  THEN [cli EXCEPT !.searches = searched, !.pc = "retry"]
                  ELSE [cli EXCEPT !.searches = searched, !.found = r,
                                   !.pc = "found"]
    /\ UNCHANGED serverVars

\* FindDevContainer: the search with the host folder label alone.
FindDevContainerRetry ==
    /\ BoxCommand(cli) /\ cli.pc = "retry"
    /\ \E ok \in BOOLEAN :
        LET labels == {HostFolderLabel}
            r == FindContainer(cli.world, labels, ok)
        IN cli' = [cli EXCEPT !.searches =
                                  Append(@, [labels |-> labels, err |-> r.err]),
                              !.found = r, !.pc = "found"]
    /\ UNCHANGED serverVars

\* GetBoxSummary after FindDevContainer has returned.
GetBoxSummary ==
    /\ BoxCommand(cli) /\ cli.pc = "found"
    /\ LET dc == cli.found.summary
           err == cli.found.err
       IN cli' =
           IF err # NoError
           THEN IF containerIsContainerNotFound(err)
                THEN [cli EXCEPT !.pc = "returned",
                                 !.summary = [State |-> BoxState.DoesNotExist,
                                              ContainerID |-> 0]]
                ELSE [cli EXCEPT !.pc = "returned", !.err = err]
           ELSE [cli EXCEPT !.pc = "returned",
                            !.summary =
                                [State |-> IF dc.State = "running"
                                           THEN BoxState.Running
                                           ELSE IF dc.State = "exited"
                                                THEN BoxState.Stopped
                                                ELSE BoxState.Unknown,
                                 ContainerID |-> dc.ID]]
    /\ UNCHANGED serverVars

stopCmdAnyState ==
    /\ cli.cmd = "stop" /\ cli.pc = "returned"
    /\ \E ok \in BOOLEAN :
        cli' = IF cli.err # NoError
               THEN [cli EXCEPT !.pc = "exited", !.exit = 1]
               ELSE [cli EXCEPT !.pc = "exited",
                                !.runtime = Append(@, [call |-> "ContainerStop",
                                                       id |-> cli.summary.ContainerID]),
                                !.exit = IF ok THEN 0 ELSE 1]
    /\ UNCHANGED serverVars

\* stopCmd after GetBoxSummary: it exits on an error and on a state other
\* than running, and stops the container otherwise; the runtime may fail.
stopCmd ==
    /\ cli.cmd = "stop" /\ cli.pc = "returned"
    /\ \E ok \in BOOLEAN :
        cli' = IF cli.err # NoError \/ cli.summary.State # BoxState.Running
               THEN [cli EXCEPT !.pc = "exited", !.exit = 1]
               ELSE [cli EXCEPT !.pc = "exited",
                                !.runtime = Append(@, [call |-> "ContainerStop",
                                                       id |-> cli.summary.ContainerID]),
                                !.exit = IF ok THEN 0 ELSE 1]
    /\ UNCHANGED serverVars

\* rmCmd after GetBoxSummary: it exits on an error and on a state other than
\* stopped, and removes the container otherwise.
rmCmd ==
    /\ cli.cmd = "rm" /\ cli.pc = "returned"
    /\ \E ok \in BOOLEAN :
        cli' = IF cli.err # NoError \/ cli.summary.State # BoxState.Stopped
               THEN [cli EXCEPT !.pc = "exited", !.exit = 1]
               ELSE [cli EXCEPT !.pc = "exited",
                                !.runtime = Append(@, [call |-> "ContainerRemove",
                                                       id |-> cli.summary.ContainerID]),
                                !.exit = IF ok THEN 0 ELSE 1]
    /\ UNCHANGED serverVars

InitBox ==
    /\ NoServer
    /\ \E cmd \in {"stop", "rm"} : \E configOk \in BOOLEAN :
       \E world \in SeqsUpTo(Containers, MaxContainers) :
           cli = [cmd |-> cmd, pc |-> "load", configOk |-> configOk,
                  world |-> world, searches |-> << >>,
                  found |-> [summary |-> NoSummary, err |-> NoError],
                  summary |-> [State |-> "", ContainerID |-> 0], err |-> NoError,
                  runtime |-> << >>, exit |-> 0]

NextBox ==
    \/ LoadBoxConfig
    \/ FindDevContainerFirst
    \/ FindDevContainerRetry
    \/ GetBoxSummary
    \/ stopCmd
    \/ rmCmd

SpecBox == InitBox /\ [][NextBox]_vars

(***************************************************************************)
(* Specifications.                                                          *)
(***************************************************************************)
ShellStep(ch) ==
    \/ DockerClientInit(ch)
    \/ Dequeue(ch)
    \/ ShellCreate(ch)
    \/ ShellAttach(ch)
    \/ ShellSpawn(ch)

ChannelStep(ch) ==
    \/ ShellStep(ch)
    \/ HandleChannelReturn(ch)
    \/ HandlePtyReq(ch)
    \/ HandleWindowChange(ch)
    \/ HandleEnv(ch)
    \/ HandleDefault(ch)

PumpStep(i) ==
    \/ OutStart(i)
    \/ OutRead(i)
    \/ OutWrite(i)
    \/ OutCloseWrite(i)
    \/ OutClose(i)
    \/ InStart(i)
    \/ InRead(i)
    \/ InWrite(i)

ConnStep(c) ==
    \/ Accept(c)
    \/ \E user \in Users : \E pass \in Passwords : Handshake(c, user, pass)
    \/ HandshakeAbort(c)
    \/ \E kind \in {"session", "direct-tcpip"} : PeerOpenChannel(c, kind)
    \/ HandleNewChannel(c)
    \/ PeerDisconnect(c)
    \/ HandleConnectionReturn(c)
    \/ Stall(c)
    \/ Resume(c)

\* One accepted session channel on an authenticated connection:
\* handleChannel from its first statement.

Init ==
    /\ crashed = FALSE
    /\ acceptor = AtAccept
    /\ conn = [c \in Conns |->
                 IF c = 1
                 THEN [NewConn EXCEPT !.pc = "serving", !.opened = 1,
                                      !.offered = <<sshUser, sshPassword>>,
                                      !.authed = TRUE,
                                      !.asked = <<"session">>,
                                      !.handed = <<1>>]
                 ELSE NewConn]
    /\ Listening
    /\ stalled = {}
    /\ sshch = [ch \in {<<1, 1>>} |-> OpenChannel]
    /\ hc = [ch \in {<<1, 1>>} |-> NewHandler]
    /\ pumps = << >>
    /\ execs = << >>
    /\ streams = << >>
    /\ calls = << >>
    /\ nSent = 0

\* The request loop of one channel against the runtime: the peer sends any
\* requests and may close the channel.
Next ==
    \/ \E ch \in Chans : ChannelStep(ch)
    \/ \E ch \in Chans : \E in \in ChannelInputs : ClientRequest(ch, in, MaxReqs)
    \/ \E ch \in Chans : ClientClose(ch)

Spec == Init /\ [][Next]_vars

\* The streaming of one channel that stays open: the peer asks for shells
\* and terminals, types and half-closes; the exec processes write and exit.

NextStream ==
    \/ \E ch \in Chans : ShellStep(ch)
    \/ \E ch \in Chans : HandlePtyReq(ch)
    \/ \E i \in PumpIds : PumpStep(i)
    \/ \E s \in StreamIds : ExecProduce(s, MaxEvents)
    \/ \E s \in StreamIds : ExecExit(s)
    \/ \E ch \in Chans :
         \E in \in { <<"shell", << >> >>, <<"pty-req", SSHString(<< >>)>> } :
             ClientRequest(ch, in, MaxEvents)
    \/ \E ch \in Chans : ClientData(ch, MaxEvents)
    \/ \E ch \in Chans : ClientEOF(ch)

SpecStream == Init /\ [][NextStream]_vars

\* The whole server after net.Listen: peers connect, authenticate, open
\* channels, ask for shells, stall and leave.
InitServe ==
    /\ crashed = FALSE
    /\ acceptor = AtAccept
    /\ conn = [c \in Conns |-> NewConn]
    /\ Listening
    /\ stalled = {}
    /\ sshch = [ch \in {} |-> OpenChannel]
    /\ hc = [ch \in {} |-> NewHandler]
    /\ pumps = << >>
    /\ execs = << >>
    /\ streams = << >>
    /\ calls = << >>
    /\ nSent = 0


NextServe ==
    \/ \E c \in Conns : ConnStep(c)
    \/ ListenerClose
    \/ AcceptFails
    \/ \E ch \in Chans : ShellStep(ch)
    \/ \E ch \in Chans : HandleChannelReturn(ch)
    \/ \E i \in PumpIds : PumpStep(i)
    \/ \E s \in StreamIds : ExecProduce(s, MaxServed)
    \/ \E s \in StreamIds : ExecExit(s)
    \/ \E ch \in Chans : \E in \in { <<"shell", << >> >> } :
           ClientRequest(ch, in, MaxServed)
    \/ \E ch \in Chans : ClientData(ch, MaxServed)
    \/ \E ch \in Chans : ClientEOF(ch)

SpecServe == InitServe /\ [][NextServe]_vars

\* The steps the server's own goroutines take; the scheduler runs a
\* goroutine that can go on.  What the peers, the exec processes and the
\* owner of the listening socket do is left to them.
ServerStep ==
    \/ AcceptFails
    \/ \E c \in Conns : HandshakeAbort(c)
    \/ \E c \in Conns : HandleNewChannel(c)
    \/ \E c \in Conns : HandleConnectionReturn(c)
    \/ \E ch \in Chans : ChannelStep(ch)
    \/ \E i \in PumpIds : PumpStep(i)

SpecServeFair == SpecServe /\ WF_vars(ServerStep)

\* The server is started again and again on a path that holds no file, a
\* key, no key, or a file that cannot be read.

InitHostKey ==
    /\ crashed = FALSE
    /\ acceptor = AtAccept
    /\ conn = [c \in Conns |-> NewConn]
    /\ stalled = {}
    /\ sshch = [ch \in {} |-> OpenChannel]
    /\ hc = [ch \in {} |-> NewHandler]
    /\ pumps = << >>
    /\ execs = << >>
    /\ streams = << >>
    /\ calls = << >>
    /\ nSent = 0
    /\ listener = "none"
    /\ files \in [Paths -> {NoFile, File(InstalledKey), File(Garbage),
                          Unreadable(InstalledKey)}]
    /\ loads = << >>
    /\ cli = NoCommand

NextHostKey ==
    \/ \E path \in Paths : BeginLoad(path, FALSE)
    \/ \E l \in (1..MaxLoads) : LoadStep(l)

SpecHostKey == InitHostKey /\ [][NextHostKey]_vars

\* Servers started at the same time: a Start may begin while earlier ones
\* are still loading.
NextHostKeyRace ==
    \/ \E path \in Paths : BeginLoad(path, TRUE)
    \/ \E l \in (1..MaxLoads) : LoadStep(l)

SpecHostKeyRace == InitHostKey /\ [][NextHostKeyRace]_vars

\* parseDims on its own: the peer sends one window-change whose payload is any
\* byte string of up to MaxDimLen bytes over {0, 128, 255}, and the request
\* loop \* hands it to parseDims.
DimInputs ==
    { <<"window-change", p>> :
          p \in UNION { [1..n -> {0, 128, 255}] : n \in 0..MaxDimLen } }

NextDims ==
    \/ \E ch \in Chans : DockerClientInit(ch)
    \/ \E ch \in Chans : Dequeue(ch)
    \/ \E ch \in Chans : HandleWindowChange(ch)
    \/ /\ nSent = 0
       /\ \E ch \in Chans : \E in \in DimInputs : ClientRequest(ch, in, 1)

SpecDims == Init /\ [][NextDims]_vars

(***************************************************************************)
(* Properties.                                                              *)
(***************************************************************************)
CallsOf(ch, op) ==
    { i \in DOMAIN calls : calls[i].ch = ch /\ calls[i].op = op }
CallsFor(ch, n) ==
    { i \in DOMAIN calls : calls[i].ch = ch /\ calls[i].n = n }
Created(ch) == { i \in CallsOf(ch, "create") : calls[i].ok }

\* The requests of ch whose handling has begun and ended.
Handled(ch) == { k \in 1..Len(hc[ch].begun) : \E j \in DOMAIN hc[ch].ended :
                                                 hc[ch].ended[j] = k }

\* The session id handleChannel holds when it makes call i: that of its last
\* successful create before i, 0 for none.
SessionAt(ch, i) ==
    LET before == { j \in Created(ch) : j < i } IN
    IF before = {} THEN 0
    ELSE calls[CHOOSE j \in before : \A l \in before : l <= j].id

\* The bytes of stream s written to channel ch, in the order written.
DeliveredOf(ch, s) == SelectSeq(sshch[ch].delivered, LAMBDA d : d[1] = s)

\* C1: on every channel, whatever requests arrive and however the runtime
\* answers, at most one create-exec call succeeds (so the session id, once
\* set, is never replaced).
C1_AtMostOneSession ==
    \A ch \in DOMAIN hc : Cardinality(Created(ch)) <= 1

\* C2: once the peer has sent EOF on a channel that is still open, the server
\* half-closes or closes the channel only when every byte every exec stream of
\* the channel has produced is written to the channel, in order, and the
\* stream produces no more.
C2_NoOutputLostOnPeerEOF ==
    \A ch \in DOMAIN sshch :
      (/\ sshch[ch].peerEOF
       /\ sshch[ch].peerOpen
       /\ sshch[ch].sentEOF \/ sshch[ch].srvClosed)
      => \A s \in DOMAIN streams :
           streams[s].ch = ch =>
             /\ DeliveredOf(ch, s) = [k \in 1..streams[s].produced |-> <<s, k>>]
             /\ streams[s].eof \/ streams[s].closed

\* C3: an inbound pump that has returned on end-of-input has closed the write
\* side of its exec stream (the source has no CloseWrite on the stream: its
\* write side is closed only when the whole stream is).
C3_StdinClosedOnPeerEOF ==
    \A i \in DOMAIN pumps :
      (pumps[i].dir = "in" /\ pumps[i].pc = "done" /\ pumps[i].res = "eof"
         /\ pumps[i].src # 0)
      => streams[pumps[i].src].closed

\* C4: an outbound pump that has seen end-of-output calls CloseWrite on the
\* channel before it returns, and only when every byte it read from the exec
\* stream is written to the channel; the channel is then half-closed unless it
\* was already closed.
C4_HalfCloseAfterDrain ==
    \A i \in DOMAIN pumps :
      (pumps[i].dir = "out" /\ pumps[i].res = "eof") =>
        /\ pumps[i].pc \in {"closewrite", "close", "done"}
        /\ pumps[i].pc \in {"close", "done"} => pumps[i].closeWrite
        /\ pumps[i].closeWrite =>
             /\ pumps[i].buf = 0
             /\ pumps[i].nwritten = pumps[i].nread
             /\ Len(DeliveredOf(pumps[i].ch, pumps[i].src)) >= pumps[i].nwritten
             /\ \/ sshch[pumps[i].ch].sentEOF
                \/ ~sshch[pumps[i].ch].peerOpen
                \/ sshch[pumps[i].ch].srvClosed

C4_Witness ==
    \E i \in DOMAIN pumps :
      /\ pumps[i].dir = "out" /\ pumps[i].res = "eof" /\ pumps[i].closeWrite
      /\ pumps[i].nread >= 2
      /\ sshch[pumps[i].ch].sentEOF

\* C6: the requests of a channel are handled one at a time in arrival order:
\* the k-th request whose handling begins is the k-th that arrived, handling
\* ends in the same order, at most one request is being handled, and every
\* runtime call and reply belongs to a request that has begun, in that order.
C6_OneRequestAtATime ==
    \A ch \in DOMAIN hc :
      LET h == hc[ch] IN
      /\ \A k \in DOMAIN h.begun : h.begun[k].n = k
      /\ \A k \in DOMAIN h.ended : h.ended[k] = k
      /\ Len(h.begun) - Len(h.ended) \in {0, 1}
      /\ (Len(h.begun) > Len(h.ended)) <=> (h.cur # NoReq)
      /\ h.cur # NoReq => h.cur = h.begun[Len(h.begun)]
      /\ \A i \in DOMAIN calls : calls[i].ch = ch =>
           /\ calls[i].n \in 1..Len(h.begun)
           /\ \A j \in DOMAIN calls : (calls[j].ch = ch /\ j < i) =>
                calls[j].n <= calls[i].n
      /\ \A i \in DOMAIN sshch[ch].replies :
           /\ sshch[ch].replies[i].n \in 1..Len(h.begun)
           /\ \A j \in DOMAIN sshch[ch].replies : j < i =>
                sshch[ch].replies[j].n < sshch[ch].replies[i].n

C6_Witness ==
    \E ch \in DOMAIN hc :
      /\ Len(hc[ch].ended) >= 1
      /\ hc[ch].pc = "attach"
      /\ sshch[ch].requests # << >>

\* C7: a window-change handled while the channel has no session makes no
\* resize call (no call to the runtime at all), and the loop goes on to the
\* next request.
C7_NoResizeWithoutSession ==
    \A ch \in DOMAIN hc :
      \A k \in 1..Len(hc[ch].begun) :
        (/\ hc[ch].begun[k].type = "window-change"
         /\ k # hc[ch].cur.n
         /\ \A i \in Created(ch) : calls[i].n > k)
        => /\ k \in Handled(ch)
           /\ CallsFor(ch, k) = {}

\* C8: when a pty-req that succeeded is followed by a shell, the two requests
\* make exactly one create-exec call, with tty = true, and the shell attaches
\* to the id that call returned.
C8_ShellReusesPtySession ==
    \A ch \in DOMAIN hc :
      \A k \in 1..(Len(hc[ch].begun) - 1) :
        LET b == hc[ch].begun
            creates == { i \in CallsOf(ch, "create") : calls[i].n \in {k, k + 1} }
            attaches == { i \in CallsOf(ch, "attach") : calls[i].n = k + 1 }
        IN (/\ b[k].type = "pty-req"
            /\ b[k + 1].type = "shell"
            /\ \E i \in DOMAIN sshch[ch].replies :
                 sshch[ch].replies[i] = [n |-> k, ok |-> TRUE]
            /\ attaches # {})
           => /\ Cardinality(creates) = 1
              /\ \A i \in creates : calls[i].n = k /\ calls[i].tty /\ calls[i].ok
              /\ Cardinality(attaches) = 1
              /\ \A i \in creates : \A j \in attaches :
                   calls[j].id = calls[i].id /\ calls[i].id # 0

C8_Witness ==
    \E ch \in DOMAIN hc :
      /\ Len(hc[ch].begun) >= 2
      /\ hc[ch].begun[1].type = "pty-req"
      /\ hc[ch].begun[2].type = "shell"
      /\ \E i \in CallsOf(ch, "attach") : calls[i].n = 2 /\ calls[i].ok
      /\ \E i \in CallsOf(ch, "create") : calls[i].n = 1 /\ calls[i].ok

\* C9: after pty-req(term, W, H) and a shell that attached, and before any
\* resize, the runtime session has size W x H.
C9_PtyDimsApplied ==
    \A ch \in DOMAIN hc :
      \A i \in Created(ch) :
        (/\ calls[i].tty
         /\ \E j \in CallsOf(ch, "attach") : calls[j].id = calls[i].id /\ calls[j].ok
         /\ \A j \in CallsOf(ch, "resize") : calls[j].id # calls[i].id)
        => execs[calls[i].id].size = PtyReqDims(hc[ch].begun[calls[i].n].payload)

\* C10: on a channel that has a session, every window-change that was handled
\* made exactly one runtime call, a resize addressed to that session with the
\* width and height the peer encoded (80 x 24 for a short payload), and the
\* loop went on whether the call failed or not.
Cells(n) == <<0, n>>
WindowDims(payload) ==
    IF payload = WindowChangePayload(120, 50)
    THEN <<Cells(120), Cells(50)>>
    ELSE <<Cells(80), Cells(24)>>

C10_OneResizePerWindowChange ==
    \A ch \in DOMAIN hc :
      \A k \in 1..Len(hc[ch].begun) :
        (/\ hc[ch].begun[k].type = "window-change"
         /\ k # hc[ch].cur.n
         /\ \E i \in Created(ch) : calls[i].n < k)
        => /\ k \in Handled(ch)
           /\ Cardinality(CallsFor(ch, k)) = 1
           /\ \A i \in CallsFor(ch, k) :
                /\ calls[i].op = "resize"
                /\ calls[i].id = SessionAt(ch, i) /\ calls[i].id # 0
                /\ calls[i].dims = WindowDims(hc[ch].begun[k].payload)
                /\ calls[i].ok => execs[calls[i].id].size \in
                                    { WindowDims(p) : p \in WindowPayloads }

C10_Witness ==
    \E ch \in DOMAIN hc :
      \E k \in Handled(ch) :
        /\ hc[ch].begun[k].type = "window-change"
        /\ hc[ch].begun[k].payload = WindowChangePayload(120, 50)
        /\ \E i \in CallsFor(ch, k) : ~calls[i].ok /\ calls[i].id # 0
        /\ Len(hc[ch].ended) > k

C11_NoResizeForPlainShell ==
    \A ch \in DOMAIN hc :
      \A i \in Created(ch) :
        hc[ch].begun[calls[i].n].type = "shell" =>
          /\ ~calls[i].tty
          /\ \A j \in CallsOf(ch, "resize") : calls[j].id # calls[i].id

\* The dimensions parseDims returned for request k of ch, as the resize call
\* of that request carries them.
ParsedFor(ch, k) == { calls[i].dims : i \in CallsFor(ch, k) }

\* C12: for a payload of 0 to 7 bytes, whatever the bytes, parseDims returns
\* width 80 and height 24.
C12_ShortPayloadDefaults ==
    \A ch \in DOMAIN hc :
      \A k \in Handled(ch) :
        Len(hc[ch].begun[k].payload) < 8 =>
          ParsedFor(ch, k) = { <<Cells(80), Cells(24)>> }

C12_Witness ==
    \E ch \in DOMAIN hc :
      \E k \in Handled(ch) :
        /\ Len(hc[ch].begun[k].payload) = 7
        /\ hc[ch].begun[k].payload[1] = 255
        /\ hc[ch].begun[k].payload[5] = 128
        /\ ParsedFor(ch, k) # {}

\* C13: for a payload of 8 bytes or more, parseDims returns as width the
\* big-endian unsigned 32-bit value of bytes 0..3 and as height that of bytes
\* 4..7: both lie in 0..2^32-1 (neither half is negative or exceeds 65535),
\* written back big-endian they are the first eight bytes, and the bytes after
\* the eighth change nothing.
BigEndianBytes(v) == << v[1] \div 256, v[1] % 256, v[2] \div 256, v[2] % 256 >>

RepliesTo(ch, k) ==
    { i \in DOMAIN sshch[ch].replies : sshch[ch].replies[i].n = k }

\* A pty-req payload is malformed when it has no four-byte length or when the
\* terminal name it declares does not fit in the bytes that follow.
Malformed(p) == Len(p) < 4 \/ p[4] > Len(p) - 4

\* C14: a malformed pty-req does not end the process; once handled it has got
\* exactly one reply, a failure, has made no create-exec call, and the loop
\* has gone on.
C14_MalformedPtyReqRefused ==
    \A ch \in DOMAIN hc :
      \A k \in 1..Len(hc[ch].begun) :
        (hc[ch].begun[k].type = "pty-req" /\ Malformed(hc[ch].begun[k].payload))
        => /\ ~crashed
           /\ CallsFor(ch, k) = {}
           /\ k # hc[ch].cur.n =>
                /\ k \in Handled(ch)
                /\ Cardinality(RepliesTo(ch, k)) = 1
                /\ \A i \in RepliesTo(ch, k) : ~sshch[ch].replies[i].ok

\* C15: while the server serves, nothing a peer sends and no answer of the
\* runtime ends the process.
C15_ProcessSurvives == ~crashed

\* C16: a pty-req handled on a channel that already has a session (from an
\* earlier pty-req or from a shell) has got a failure reply and has made no
\* create-exec call.
C16_PtyReqOnlyWhenOpened ==
    \A ch \in DOMAIN hc :
      \A k \in Handled(ch) :
        (/\ hc[ch].begun[k].type = "pty-req"
         /\ \E i \in Created(ch) : calls[i].n < k)
        => /\ CallsFor(ch, k) = {}
           /\ \A i \in RepliesTo(ch, k) : ~sshch[ch].replies[i].ok
           /\ RepliesTo(ch, k) # {}

\* C17: a channel has at most one successful attach and at most two copy
\* goroutines, one per direction, whatever shells it is asked for.
C17_OneShellPerChannel ==
    \A ch \in DOMAIN hc :
      /\ Cardinality({ i \in CallsOf(ch, "attach") : calls[i].ok }) <= 1
      /\ \A dir \in {"out", "in"} :
           Cardinality({ i \in DOMAIN pumps :
                           pumps[i].ch = ch /\ pumps[i].dir = dir }) <= 1

\* The copy goroutines started for request k of ch in direction dir.
PumpsFor(ch, k, dir) ==
    { i \in DOMAIN pumps :
        pumps[i].ch = ch /\ pumps[i].n = k /\ pumps[i].dir = dir }

\* C18: a request whose create-exec or attach call failed has got exactly one
\* reply, a failure; the failed call is the last call made for it; no copy
\* goroutine was started for it; and its handling has ended, the loop being
\* free for the next request.
C18_RuntimeFailureRefused ==
    \A ch \in DOMAIN hc :
      \A i \in CallsOf(ch, "create") \cup CallsOf(ch, "attach") :
        ~calls[i].ok =>
          LET k == calls[i].n IN
          /\ hc[ch].begun[k].type \in {"pty-req", "shell"}
          /\ calls[i].op = "attach" => hc[ch].begun[k].type = "shell"
          /\ Cardinality(RepliesTo(ch, k)) = 1
          /\ \A r \in RepliesTo(ch, k) : ~sshch[ch].replies[r].ok
          /\ \A j \in CallsFor(ch, k) : j <= i
          /\ \A dir \in {"out", "in"} : PumpsFor(ch, k, dir) = {}
          /\ k \in Handled(ch)
          /\ hc[ch].cur.n # k

C18_Witness ==
    \E ch \in DOMAIN hc :
      /\ \E i \in CallsOf(ch, "create") :
           ~calls[i].ok /\ hc[ch].begun[calls[i].n].type = "pty-req"
      /\ \E i \in CallsOf(ch, "attach") :
           /\ ~calls[i].ok
           /\ \E j \in CallsOf(ch, "create") : calls[j].ok /\ calls[j].n = calls[i].n
           /\ Len(hc[ch].ended) > calls[i].n

\* C19: every copy goroutine belongs to a shell request whose attach call
\* succeeded and whose success reply is already sent; a shell whose handling
\* has ended after a successful attach has exactly one goroutine per
\* direction; and every byte written to the channel comes from a stream whose
\* shell has its success reply.
C19_ReplyBeforePumps ==
    \A ch \in DOMAIN hc :
      /\ \A i \in DOMAIN pumps :
           pumps[i].ch = ch =>
             /\ \E j \in CallsFor(ch, pumps[i].n) :
                  calls[j].op = "attach" /\ calls[j].ok
             /\ \E r \in RepliesTo(ch, pumps[i].n) : sshch[ch].replies[r].ok
      /\ \A j \in CallsOf(ch, "attach") :
           calls[j].ok =>
             \A dir \in {"out", "in"} :
               Cardinality(PumpsFor(ch, calls[j].n, dir)) =
                 IF calls[j].n \in Handled(ch) THEN 1 ELSE 0
      /\ \A d \in DOMAIN sshch[ch].delivered :
           \E j \in CallsOf(ch, "attach") :
             /\ calls[j].ok
             /\ calls[j].id = streams[sshch[ch].delivered[d][1]].exec
             /\ \E r \in RepliesTo(ch, calls[j].n) : sshch[ch].replies[r].ok

C19_Witness ==
    \E ch \in DOMAIN hc :
      /\ sshch[ch].delivered # << >>
      /\ \E i \in DOMAIN pumps :
           pumps[i].ch = ch /\ pumps[i].dir = "in" /\ pumps[i].pc = "copy"

\* C20: handling an env request or a request of an unrecognized type makes no
\* runtime call, changes neither the session id nor the attached stream nor
\* anything the runtime holds, sends exactly one reply (success for env,
\* failure for an unrecognized type) and returns to the head of the loop.
C20_EnvAndUnknownAreNoOps ==
    [][ \A ch \in DOMAIN hc :
          (/\ hc[ch].pc = "handle"
           /\ hc[ch].cur.type \notin {"pty-req", "shell", "window-change"}
           /\ hc'[ch] # hc[ch])
          => /\ calls' = calls /\ execs' = execs /\ streams' = streams
             /\ pumps' = pumps
             /\ hc'[ch].execID = hc[ch].execID
             /\ hc'[ch].hijackedResp = hc[ch].hijackedResp
             /\ hc'[ch].pc = "loop"
             /\ sshch'[ch].replies =
                  Append(sshch[ch].replies,
                         [n |-> hc[ch].cur.n, ok |-> (hc[ch].cur.type = "env")])
      ]_vars

C20_Witness ==
    \E ch \in DOMAIN hc :
      /\ hc[ch].execID # 0 /\ hc[ch].hijackedResp # 0
      /\ \E k \in Handled(ch) : \E l \in Handled(ch) :
           /\ hc[ch].begun[k].type = "env"
           /\ hc[ch].begun[l].type = "subsystem"
           /\ \E i \in CallsOf(ch, "attach") :
                calls[i].ok /\ calls[i].n < k /\ calls[i].n < l

(***************************************************************************)
(* Connections: handshake, authentication and channel kinds.                *)
(***************************************************************************)
\* NewServerConn has returned for c, with an error.
HandshakeFailed(c) == conn[c].pc \notin {"free", "handshake"} /\ ~conn[c].authed
ChansOf(c) == {ch \in DOMAIN hc \cup DOMAIN sshch : ConnOf(ch) = c}

\* C21: a connection whose handshake or authentication has failed has its
\* socket closed, and no channel of it is ever accepted or given to
\* handleChannel.
C21_FailedHandshakeServesNothing ==
    \A c \in Conns :
        HandshakeFailed(c) =>
            /\ conn[c].pc = "closed"
            /\ conn[c].handed = << >>
            /\ ChansOf(c) = {}

\* One connection was refused for its credentials, another lost its peer
\* during the handshake.
C21_Witness ==
    \E c \in Conns : \E d \in Conns \ {c} :
        /\ HandshakeFailed(c) /\ conn[c].offered # << >>
        /\ HandshakeFailed(d) /\ conn[d].offered = << >> /\ conn[d].peerGone

C23_RejectionLeavesOthersAlone ==
    [][\A c \in Conns :
          (conn[c].pc = "handshake" /\ conn'[c].pc = "closed") =>
              /\ \A d \in Conns \ {c} : conn'[d] = conn[d]
              /\ UNCHANGED <<crashed, acceptor, stalled, listener, sshch, hc,
                             pumps, execs, streams, calls>>]_vars

\* One connection has been refused while the other has a shell whose
\* pumps are copying.
C23_Witness ==
    \E c \in Conns : \E d \in Conns \ {c} :
        /\ HandshakeFailed(c) /\ conn[c].offered # << >>
        /\ conn[d].pc = "serving" /\ conn[d].authed
        /\ \E i \in 1..Len(pumps) :
               ConnOf(pumps[i].ch) = d /\ pumps[i].pc = "copy"

\* C24: Start accepts connections until the listening socket is closed:
\* once it is closed, the accept loop eventually ends and Start returns.
C24_StartReturnsAfterListenerClosed ==
    (listener = "closed") ~> (acceptor = (MaxConns + 1))

\* Position i of what the peer of c asked for has been dealt with by the
\* loop over chans.
Dealt(c, i) == \A j \in 1..Len(conn[c].newChans) : conn[c].newChans[j].seq # i
InSeq(x, s) == \E j \in 1..Len(s) : s[j] = x

\* C25: a channel-open whose kind is not "session" is rejected and never
\* given to handleChannel, and the connection goes on with the channel-opens
\* that follow: only sessions are handed on, each open that was dealt with
\* was rejected exactly if it was no session, and the rejection leaves the
\* connection serving.
C25_OnlySessionsAreServed ==
    \A c \in Conns :
        /\ \A i \in 1..Len(conn[c].asked) :
               /\ InSeq(i, conn[c].rejected) =>
                      conn[c].asked[i] # "session" /\ Dealt(c, i)
               /\ InSeq(i, conn[c].handed) =>
                      conn[c].asked[i] = "session" /\ Dealt(c, i)
               /\ (Dealt(c, i) /\ conn[c].asked[i] # "session") =>
                      InSeq(i, conn[c].rejected) /\ ~InSeq(i, conn[c].handed)
        /\ Cardinality(ChansOf(c)) = Len(conn[c].handed)
        /\ (conn[c].rejected # << >> /\ ~conn[c].peerGone) =>
               conn[c].pc = "serving"

\* A connection whose first channel-open was rejected has had its second,
\* a session, accepted, and the session's request loop has taken a request.
C25_Witness ==
    \E c \in Conns :
        /\ conn[c].asked = <<"direct-tcpip", "session">>
        /\ conn[c].rejected = <<1>>
        /\ conn[c].handed = <<2>>
        /\ \E ch \in ChansOf(c) : ch \in DOMAIN hc /\ hc[ch].pc # "init"

(***************************************************************************)
(* The lifetime of a channel's tasks and of its attached stream.            *)
(***************************************************************************)
PumpsOf(ch) == {i \in DOMAIN pumps : pumps[i].ch = ch}

\* C26: the server closes a channel for good, and releases the channel's
\* runtime client, only after both pumps of the channel have finished or a
\* stream has failed: the closure waits for the pumps.
C26_ClosureWaitsForPumps ==
    \A ch \in DOMAIN hc :
        sshch[ch].srvClosed =>
            \/ \A i \in PumpsOf(ch) : pumps[i].pc = "done"
            \/ \E i \in PumpsOf(ch) : pumps[i].res = "error"

\* Every task of connection c has ended: handleConnection, the
\* handleChannel of each of its channels and every pump of theirs.
TasksEnded(c) ==
    /\ conn[c].pc = "closed"
    /\ \A ch \in ChansOf(c) :
           /\ ch \in DOMAIN hc => hc[ch].pc = "done"
           /\ \A i \in PumpsOf(ch) : pumps[i].pc = "done"

\* C27: when the socket of a connection closes, every task of that
\* connection eventually ends (or the process has ended), an outbound pump
\* whose exec process writes nothing included.
C27_TasksEndAfterSocketCloses ==
    \A c \in Conns : conn[c].peerGone ~> (crashed \/ TasksEnded(c))

\* C28: the attached stream of an exec is closed only after both its pumps
\* have returned: no pump closes it while the other may still use it.
C28_StreamClosedAfterBothPumps ==
    \A s \in DOMAIN streams :
        streams[s].closed =>
            \A i \in DOMAIN pumps : pumps[i].src = s => pumps[i].pc = "done"

\* C29: while pumps of a channel run, the request loop does not replace the
\* stream handle they refer to (as a further shell would).
C29_HandleKeptWhilePumpsRun ==
    [][\A ch \in DOMAIN hc :
          (\E i \in PumpsOf(ch) : pumps[i].pc # "done") =>
              hc'[ch].hijackedResp = hc[ch].hijackedResp]_vars

(***************************************************************************)
(* The host key.                                                            *)
(***************************************************************************)
\* C30: loading the host key again and again from one path gives the same
\* key: a load from a path that holds no file generates a key, persists it
\* and returns it, and every later load from that path returns exactly that
\* key and leaves the file as it was.
C30_RepeatedLoadsGiveTheSameKey ==
    \A a \in 1..Len(loads) :
        (loads[a].absent /\ loads[a].wrote /\ Finished(a)) =>
            /\ loads[a].pc = "listen" /\ loads[a].signer # NoSigner
            /\ files[loads[a].path] = File(loads[a].key)
            /\ \A b \in (a + 1)..Len(loads) :
                   (loads[b].path = loads[a].path /\ Finished(b)) =>
                       /\ loads[b].pc = "listen"
                       /\ loads[b].signer = loads[a].signer
                       /\ loads[b].before = files[loads[b].path]

\* The file cannot be read, or holds no key the parser takes.
Unusable(f) == f.exists /\ (~f.readable \/ ParsePrivateKey(f.data).err # "")

\* C31: when a key file exists at the path and cannot be read or holds no
\* valid key, the load fails with an error, the file is left as it was
\* (neither overwritten nor generated anew), and Start ends the process
\* before it opens the listener.
C31_UnusableKeyFileIsFatal ==
    \A l \in 1..Len(loads) :
        Unusable(loads[l].before) =>
            /\ ~loads[l].wrote
            /\ files[loads[l].path] = loads[l].before
            /\ loads[l].pc \notin {"generate", "create", "write", "listen"}
            /\ Finished(l) =>
                   /\ loads[l].pc = "fatal" /\ loads[l].err # ""
                   /\ loads[l].signer = NoSigner
                   /\ listener # "open"

\* One start has ended on a file that holds no key, another on a file that
\* cannot be read.
C31_Witness ==
    \E l \in 1..Len(loads) : \E m \in 1..Len(loads) :
        /\ loads[l].before = File(Garbage) /\ loads[l].pc = "fatal"
        /\ loads[m].before = Unreadable(InstalledKey) /\ loads[m].pc = "fatal"

\* C32: when the key file is absent, generation is atomic with respect to
\* the path: a loader that runs at the same time reads either no file or
\* the whole key, never a key file written in part.
C32_NoPartialKeyFileRead ==
    \A l \in 1..Len(loads) :
        (~loads[l].absent /\ loads[l].pc \in {"parse", "return", "fatal", "listen"}
           /\ loads[l].err # "open: cannot read") =>
            loads[l].key # NoBytes

(***************************************************************************)
(* The commands of the tape tool.                                           *)
(***************************************************************************)
RECURSIVE MountArgs(_)
MountArgs(mounts) ==
    IF mounts = << >> THEN << >>
    ELSE <<"--mount", Head(mounts)>> \o MountArgs(Tail(mounts))

\* C33: the argument vector built for a command is "devcontainer", the
\* command, "--workspace-folder" and the workspace; then "--config"
\* "/tmp/devcontainer.json" exactly when the box has a config path; then one
\* "--mount" m pair for each configured mount, in their order; then the
\* additional arguments in their order.
C33_ArgumentVector ==
    (cli.cmd = "devcontainer" /\ cli.pc = "run") =>
        cli.argv =
            <<"devcontainer", cli.command, "--workspace-folder", cli.box.workspace>>
            \o (IF cli.box.config # "" THEN <<"--config", "/tmp/devcontainer.json">>
                ELSE << >>)
            \o MountArgs(cli.box.mounts)
            \o cli.additional

EmptyPlain(j) ==
    \/ j.k = "string" /\ j.v = ""
    \/ j.k = "array" /\ j.v = << >>
    \/ j.k = "object" /\ DOMAIN j.v = {}

Elements(j) == [i \in DOMAIN j.v |-> UnmarshalAny(j.v[i])]

\* C35: after a union-typed field is unmarshalled, exactly the accessors of
\* the JSON kind that was given report a value: for a command exactly one of
\* IsString, IsArray, IsObject is true, the one of its kind; an appPort
\* given as integer, string or array is returned by AsInt, AsString or
\* AsArray respectively and the other two return their zero value; a compose
\* file given as string or array is returned by AsString or AsArray
\* respectively and the other returns its zero value.
C35_AccessorsFollowTheKind ==
    (cli.cmd = "config" /\ cli.pc \in {"parsed", "saved"}) =>
        LET in == cli.input
            c == cli.config
        IN /\ in.initializeCommand # Absent =>
                  /\ CommandIsString(c.InitializeCommand)
                         <=> in.initializeCommand.k = "string"
                  /\ CommandIsArray(c.InitializeCommand)
                         <=> in.initializeCommand.k = "array"
                  /\ CommandIsObject(c.InitializeCommand)
                         <=> in.initializeCommand.k = "object"
           /\ in.appPort # Absent =>
                  /\ AppPortAsInt(c.AppPort) =
                         IF in.appPort.k = "number" THEN in.appPort.v ELSE 0
                  /\ AppPortAsString(c.AppPort) =
                         IF in.appPort.k = "string" THEN in.appPort.v ELSE ""
                  /\ AppPortAsArray(c.AppPort) =
                         IF in.appPort.k = "array" THEN Elements(in.appPort)
                         ELSE NilSlice
           /\ in.dockerComposeFile # Absent =>
                  /\ ComposeFileAsString(c.DockerComposeFile) =
                         IF in.dockerComposeFile.k = "string"
                         THEN in.dockerComposeFile.v ELSE ""
                  /\ ComposeFileAsArray(c.DockerComposeFile) =
                         IF in.dockerComposeFile.k = "array"
                         THEN Strings(in.dockerComposeFile) ELSE NilSlice

\* A document with an integer appPort, a command given as an array and a
\* compose file given as a string has been parsed.
C35_Witness ==
    /\ cli.cmd = "config" /\ cli.pc = "parsed"
    /\ cli.input.appPort = JNumber(3000)
    /\ cli.input.initializeCommand.k = "array"
    /\ cli.input.dockerComposeFile.k = "string"

(***************************************************************************)
(* Exec options and replies.                                                *)
(***************************************************************************)
\* C36: the tty mode used when attaching to an exec session equals the tty
\* mode the session was created with: true for a session created by
\* pty-req, false for one created by a shell without a pty-req before it.
C36_AttachTtyEqualsCreateTty ==
    \A i \in DOMAIN calls :
        (calls[i].op = "attach" /\ calls[i].id \in DOMAIN execs) =>
            calls[i].tty = execs[calls[i].id].tty

\* C37: every pty-req, shell, env and unrecognized request the request loop
\* has taken gets exactly one reply on every path, never none and never two
\* (its handling is over when the loop has gone on, or when the process has
\* ended under it), and a window-change request never gets a reply.
C37_ExactlyOneReply ==
    \A ch \in DOMAIN hc :
        \A k \in 1..Len(hc[ch].begun) :
            LET n == Cardinality(RepliesTo(ch, k)) IN
            /\ n <= 1
            /\ hc[ch].begun[k].type = "window-change" => n = 0
            /\ (hc[ch].begun[k].type # "window-change"
                  /\ (k \in Handled(ch) \/ crashed)) => n = 1

(***************************************************************************)
(* Finding the container of a box; stop and rm.                             *)
(***************************************************************************)
\* A container the search may return: it carries the host folder label and
\* its status is not "Removing".
Findable(world) ==
    { i \in 1..Len(world) : /\ HostFolderLabel \in world[i].Labels
                            /\ world[i].Status # "Removing" }

\* C38: the first search uses the host folder label and the config file
\* label; the second search, with the host folder label alone, is made when
\* and only when the first ended in container-not-found; any other error of
\* the first search is returned without a retry; and not-found is the result
\* only when no container outside status "Removing" carries the host folder
\* label.
C38_RetryOnlyOnNotFound ==
    BoxCommand(cli) =>
        LET s == cli.searches IN
        /\ Len(s) <= 2
        /\ Len(s) >= 1 => s[1].labels = {HostFolderLabel, ConfigFileLabel}
        /\ Len(s) = 2 => /\ s[1].err = "*core.ContainerNotFoundError"
                         /\ s[2].labels = {HostFolderLabel}
        /\ (cli.pc \in {"found", "returned", "exited"} /\ Len(s) >= 1) =>
            /\ s[1].err = "*core.ContainerNotFoundError" => Len(s) = 2
            /\ s[1].err \notin {NoError, "*core.ContainerNotFoundError"} =>
                   Len(s) = 1 /\ cli.found.err = s[1].err
            /\ cli.found.err = "*core.ContainerNotFoundError" =>
                   Findable(cli.world) = {}
            /\ cli.found.err = NoError =>
                   cli.found.summary.ID \in Findable(cli.world)

\* The first search found nothing although a container in status "Removing"
\* carries both labels, and the second search found a container that carries
\* the host folder label alone.
C38_Witness ==
    /\ BoxCommand(cli) /\ cli.pc = "found"
    /\ Len(cli.searches) = 2
    /\ cli.found.err = NoError
    /\ cli.world[cli.found.summary.ID].Labels = {HostFolderLabel}
    /\ \E i \in 1..Len(cli.world) :
           /\ cli.world[i].Labels = {HostFolderLabel, ConfigFileLabel}
           /\ cli.world[i].Status = "Removing"

\* C39: stop asks the runtime to stop a container only when the state of
\* the box is running, rm asks it to remove one only when the state is
\* stopped (the container has exited); in every other state, and when the
\* summary is an error, neither makes a call to the runtime.
C39_CallsOnlyInTheirState ==
    BoxCommand(cli) =>
        /\ \A i \in 1..Len(cli.runtime) :
            LET c == cli.runtime[i] IN
            /\ cli.err = NoError
            /\ c.id = cli.summary.ContainerID
            /\ c.id \in 1..Len(cli.world)
            /\ \/ /\ c.call = "ContainerStop" /\ cli.cmd = "stop"
                  /\ cli.summary.State = "running"
                  /\ cli.world[c.id].State = "running"
               \/ /\ c.call = "ContainerRemove" /\ cli.cmd = "rm"
                  /\ cli.summary.State = "stopped"
                  /\ cli.world[c.id].State = "exited"
        /\ (cli.pc = "exited" /\ cli.cmd = "stop"
              /\ (cli.err # NoError \/ cli.summary.State # "running")) =>
               cli.runtime = << >>
        /\ (cli.pc = "exited" /\ cli.cmd = "rm"
              /\ (cli.err # NoError \/ cli.summary.State # "stopped")) =>
               cli.runtime = << >>

\* rm has removed an exited container, which it found in the second search.
C39_Witness ==
    /\ cli.cmd = "rm" /\ cli.pc = "exited"
    /\ Len(cli.searches) = 2
    /\ Len(cli.runtime) = 1
    /\ cli.runtime[1].call = "ContainerRemove"

\* C40: every generation of a host key on an absent path yields the same
\* key material, whatever the path and whatever was generated before: two
\* starts on different paths that hold no file persist the same bytes and
\* both obtain a host identity, the same one.
C40_GenerationsGiveTheSameIdentity ==
    \A a \in 1..Len(loads) : \A b \in 1..Len(loads) :
        (loads[a].absent /\ loads[b].absent) =>
            /\ (loads[a].key # NoBytes /\ loads[b].key # NoBytes) =>
                   loads[a].key = loads[b].key
            /\ (loads[a].wrote /\ loads[b].wrote) =>
                   files[loads[a].path] = files[loads[b].path]
            /\ (loads[a].wrote /\ loads[b].wrote
                  /\ Finished(a) /\ Finished(b)) =>
                   /\ loads[a].pc = "listen" /\ loads[b].pc = "listen"
                   /\ loads[a].signer # NoSigner
                   /\ loads[a].signer = loads[b].signer

=============================================================================
